---- MODULE Spec2Model ----
(***************************************************************************)
(* Delta Sharing client: the response classifier (handle_response), the    *)
(* Pagination cursor, the token provider and request authorization, and    *)
(* the facade operations of DeltaSharingClient (aggregating list           *)
(* operations and single-round-trip operations), modelled from             *)
(* src/src/client.rs, src/src/request/pagination.rs,                       *)
(* src/src/request/query.rs, src/src/response/mod.rs, src/src/error.rs and *)
(* src/src/profile.rs.                                                     *)
(*                                                                         *)
(* Rust's Option<T> is a sequence of length at most one: None is <<>> and  *)
(* Some(x) is <<x>>.  Result<T, E> is a record with an ok flag.            *)
(***************************************************************************)
EXTENDS Integers, Sequences, FiniteSets, TLC

VARIABLES
    endpoint,     \* the endpoint URL of the client's Profile
    bearer,       \* the BearerToken of the client's Profile
    now,          \* the clock, Utc::now()
    op,           \* the facade operation of the call in progress
    pc,           \* position of the call (driver) or of the object under test
    pagination,   \* the Pagination cursor
    items,        \* the accumulator vector of the aggregating call
    result,       \* the value returned by the call, None until it returns
    requests,     \* number of page requests (raw page calls) the call issued
    fetched,      \* the pages fetched successfully so far, in order
    lastOutcome,  \* Result of the most recent raw page call, None before it
    yields,       \* number of times the call has returned Ok
    sent,         \* the network requests the call has sent, in order
    wire,         \* what the transport handed back for the latest request sent
    reading,      \* the response whose body response.json() is reading, or None
    ctor,         \* the constructor that built the cursor under test
    nsets,        \* number of set_page_token calls on the cursor under test
    lastSet,      \* argument of the most recent set_page_token call
    payload,      \* the payload type T handle_response is instantiated with
    response,     \* the HTTP response handed to handle_response
    classified,   \* the Result handle_response returned, None before the call
    provided,     \* the Result provide_token returned, None before the call
    error,        \* the DeltaSharingError under test
    notFound,     \* what is_not_found returned for it, None before the call
    args,         \* the arguments of the call: names and version query
    built,        \* the Result of building the request URL, None before it
    calls,        \* the concurrent calls on one client, by call id
    source,       \* the constructor call that is to build a Profile
    made,         \* what that constructor call produced, None before the call
    expired,      \* what has_expired returned, None before the call
    shown,        \* the text a Display or Debug rendering produced, None before it
    logged,       \* the tracing events emitted while a profile file is loaded
    str,          \* the string a TableVersionQuery is to be parsed from
    parsed        \* what parsing it returned, None before the call

vars == <<endpoint, bearer, now, op, pc, pagination, items, result, requests, fetched,
          lastOutcome, yields, sent, wire, reading, ctor, nsets, lastSet, payload, response,
          classified, provided, error, notFound, args, built, calls, source, made,
          expired, shown, logged, str, parsed>>

clientVars == <<endpoint, bearer, now>>
driverVars ==
    <<op, items, result, requests, fetched, lastOutcome, yields, sent, wire, reading>>
cursorVars == <<ctor, nsets, lastSet>>
classifyVars == <<payload, response, classified>>
tokenVars == <<provided, expired>>
errorVars == <<error, notFound>>
urlVars == <<args, built>>
callsVars == <<calls>>
loaderVars == <<source, made>>
renderVars == <<shown, logged>>
queryVars == <<str, parsed>>

----------------------------------------------------------------------------
(* Bounds of the model. *)

\* page requests one aggregating call may send in the bounded specification
MaxRequests == 3
\* accumulator length up to which the unbounded server keeps sending items
MaxItems == 2
\* set_page_token calls applied to the cursor under test
MaxSets == 3

----------------------------------------------------------------------------
(* Option and Result. *)

None == <<>>
Some(x) == <<x>>
is_some(o) == o # None
unwrap(o) == o[1]

Ok(v) == [ok |-> TRUE, val |-> v]
Err(e) == [ok |-> FALSE, err |-> e]

----------------------------------------------------------------------------
(* HTTP status codes named by the code. *)

OK == 200
BAD_REQUEST == 400
UNAUTHORIZED == 401
FORBIDDEN == 403
NOT_FOUND == 404
INTERNAL_SERVER_ERROR == 500

\* statuses handle_response has no arm for
OtherStatuses == {201, 204, 418, 429, 503}

Statuses ==
    {OK, BAD_REQUEST, UNAUTHORIZED, FORBIDDEN, NOT_FOUND, INTERNAL_SERVER_ERROR}
        \cup OtherStatuses

----------------------------------------------------------------------------
(* Errors: DeltaSharingError {kind, message}; ClientError and ServerError  *)
(* kinds carry a status and a code.                                        *)

internal(message) == [kind |-> "Internal", message |-> message]
request(message) == [kind |-> "Request", message |-> message]
profile(message) == [kind |-> "Profile", message |-> message]
parse_response(message) == [kind |-> "ParseResponse", message |-> message]
client(status, code, message) ==
    [kind |-> "ClientError", status |-> status, code |-> code, message |-> message]
server(status, code, message) ==
    [kind |-> "ServerError", status |-> status, code |-> code, message |-> message]

\* a faulty is_not_found that looks at the status alone
is_not_found_any_kind(e) ==
    e.kind \in {"ClientError", "ServerError"} /\ e.status = NOT_FOUND

is_not_found(e) == e.kind = "ClientError" /\ e.status = NOT_FOUND

\* impl From<reqwest::Error> for DeltaSharingError
from_reqwest_error(text) == client(INTERNAL_SERVER_ERROR, "", text)

----------------------------------------------------------------------------
(* Response bodies.  A body is a JSON object given by the value of each    *)
(* key the deserializers look at (None when the key is missing), or a JSON *)
(* array given by its elements, or neither (a JSON scalar, or text that is *)
(* no JSON).  An element of an array is the JSON array of the items of a   *)
(* page, a string, null, or the JSON value of a share.                     *)

ItemSeqs == {<<>>, <<"A">>, <<"A", "B">>, <<"C">>}
Tokens == {"", "t1", "t2"}
Codes == {"SHARE_NOT_FOUND"}
Messages == {"m"}
ShareValues == {"share1"}

EmptyObject ==
    [json |-> TRUE, items |-> None, next_page_token |-> None, nextPageToken |-> None,
     errorCode |-> None, message |-> None, share |-> None, elements |-> None]

NotJson == [EmptyObject EXCEPT !.json = FALSE]

\* the JSON values an array holds
ItemsValue(listed) == [type |-> "items", val |-> listed]
StringValue(s) == [type |-> "string", val |-> <<s>>]
NullValue == [type |-> "null", val |-> <<>>]
ShareValue(s) == [type |-> "share", val |-> <<s>>]

\* a JSON array of the elements given
Array(elements) == [NotJson EXCEPT !.elements = Some(elements)]

\* arrays that list the fields of a payload or of an error envelope in the
\* order of the struct, and arrays that list too few or too many values
ArrayBodies ==
    { Array(<<ItemsValue(<<"A">>), StringValue("t1")>>),
      Array(<<ItemsValue(<<>>), NullValue>>),
      Array(<<ShareValue("share1")>>),
      Array(<<StringValue("SHARE_NOT_FOUND"), StringValue("m")>>),
      Array(<<ItemsValue(<<"A">>)>>),
      Array(<<ItemsValue(<<"A">>), NullValue, NullValue>>),
      Array(<<>>) }

ListBodies ==
    { [EmptyObject EXCEPT !.items = i, !.next_page_token = t, !.nextPageToken = c] :
        i \in {None} \cup {Some(s) : s \in ItemSeqs},
        t \in {None} \cup {Some(s) : s \in Tokens},
        c \in {None, Some("t1")} }

ErrorBodies ==
    { [EmptyObject EXCEPT !.errorCode = c, !.message = m] :
        c \in {None} \cup {Some(s) : s \in Codes},
        m \in {None} \cup {Some(s) : s \in Messages} }

ShareBodies == { [EmptyObject EXCEPT !.share = Some(s)] : s \in ShareValues }

\* objects that carry the keys of a list page and of an error envelope at once
MixedBodies ==
    { [EmptyObject EXCEPT !.items = Some(<<"A">>), !.next_page_token = t,
                          !.errorCode = Some("SHARE_NOT_FOUND"), !.message = Some("m")] :
        t \in {None, Some("t1")} }

Bodies ==
    {NotJson} \cup ListBodies \cup ErrorBodies \cup ShareBodies \cup MixedBodies
        \cup ArrayBodies

Responses == [status : Statuses, body : Bodies]

----------------------------------------------------------------------------
(* Deserialization (serde derive).  Of a JSON object a missing Option      *)
(* field is None, a missing required field is an error, unknown keys are   *)
(* ignored.  A JSON array deserializes when it lists the value of every    *)
(* field, and nothing else, in the order of the struct.                    *)

ListPayloads == {"ListSharesResponse", "ListSchemasResponse", "ListTablesResponse"}
PayloadTypes == ListPayloads \cup {"GetShareResponse"}

\* ListResponse<T> {items, next_page_token}: no rename attribute
ListResponse(b) ==
    IF b.json /\ is_some(b.items)
    THEN Some([items |-> unwrap(b.items), next_page_token |-> b.next_page_token])
    ELSE IF is_some(b.elements) /\ Len(unwrap(b.elements)) = 2
               /\ unwrap(b.elements)[1].type = "items"
               /\ unwrap(b.elements)[2].type \in {"string", "null"}
    THEN Some([items |-> unwrap(b.elements)[1].val,
               next_page_token |-> unwrap(b.elements)[2].val])
    ELSE None

\* GetShareResponse {share}
GetShareResponse(b) ==
    IF b.json /\ is_some(b.share) THEN Some([share |-> unwrap(b.share)])
    ELSE IF is_some(b.elements) /\ Len(unwrap(b.elements)) = 1
               /\ unwrap(b.elements)[1].type = "share"
    THEN Some([share |-> unwrap(unwrap(b.elements)[1].val)])
    ELSE None

\* ErrorResponse {error_code, message}, rename_all = "camelCase"
ErrorResponse(b) ==
    IF b.json /\ is_some(b.errorCode) /\ is_some(b.message)
    THEN Some([error_code |-> unwrap(b.errorCode), message |-> unwrap(b.message)])
    ELSE IF is_some(b.elements) /\ Len(unwrap(b.elements)) = 2
               /\ \A i \in 1..2 : unwrap(b.elements)[i].type = "string"
    THEN Some([error_code |-> unwrap(unwrap(b.elements)[1].val),
               message |-> unwrap(unwrap(b.elements)[2].val)])
    ELSE None

\* response.json::<T>()
json(T, b) == IF T \in ListPayloads THEN ListResponse(b) ELSE GetShareResponse(b)

----------------------------------------------------------------------------
(* handle_response<T>: the status-driven classification. *)

\* a faulty OK arm that reports an undecodable body as Internal
ok_arm_internal(T, r) ==
    IF is_some(json(T, r.body))
    THEN Ok(unwrap(json(T, r.body)))
    ELSE Err(internal("failed to parse server response"))

\* the StatusCode::OK arm
ok_arm(T, r) ==
    IF is_some(json(T, r.body))
    THEN Ok(unwrap(json(T, r.body)))
    ELSE Err(parse_response("failed to parse server response"))

\* a faulty client arm that reports every client error as 400
client_arm_fixed_status(r) ==
    IF is_some(ErrorResponse(r.body))
    THEN Err(client(BAD_REQUEST, unwrap(ErrorResponse(r.body)).error_code,
                    unwrap(ErrorResponse(r.body)).message))
    ELSE Err(parse_response("failed to parse server response"))

\* the BAD_REQUEST | UNAUTHORIZED | FORBIDDEN | NOT_FOUND arm
client_arm(r) ==
    IF is_some(ErrorResponse(r.body))
    THEN Err(client(r.status, unwrap(ErrorResponse(r.body)).error_code,
                    unwrap(ErrorResponse(r.body)).message))
    ELSE Err(parse_response("failed to parse server response"))

\* a faulty server arm that builds a client error
server_arm_as_client(r) ==
    IF is_some(ErrorResponse(r.body))
    THEN Err(client(r.status, unwrap(ErrorResponse(r.body)).error_code,
                    unwrap(ErrorResponse(r.body)).message))
    ELSE Err(parse_response("failed to parse server response"))

\* the INTERNAL_SERVER_ERROR arm
server_arm(r) ==
    IF is_some(ErrorResponse(r.body))
    THEN Err(server(r.status, unwrap(ErrorResponse(r.body)).error_code,
                    unwrap(ErrorResponse(r.body)).message))
    ELSE Err(parse_response("failed to parse server response"))

\* a faulty wildcard arm that decodes the body as an error envelope first
other_arm_decoding(r) ==
    IF is_some(ErrorResponse(r.body))
    THEN Err(internal("unknown server response"))
    ELSE Err(parse_response("failed to parse server response"))

\* the wildcard arm: the body is not read
other_arm(r) == Err(internal("unknown server response"))

\* the arms that await response.json(): every arm but the wildcard
reads_body(r) ==
    r.status \in {OK, BAD_REQUEST, UNAUTHORIZED, FORBIDDEN, NOT_FOUND, INTERNAL_SERVER_ERROR}

handle_response(T, r) ==
    CASE r.status = OK -> ok_arm(T, r)
      [] r.status \in {BAD_REQUEST, UNAUTHORIZED, FORBIDDEN, NOT_FOUND} -> client_arm(r)
      [] r.status = INTERNAL_SERVER_ERROR -> server_arm(r)
      [] OTHER -> other_arm(r)

----------------------------------------------------------------------------
(* Pagination. *)

new(max_results, page_token, is_start) ==
    [max_results |-> max_results, page_token |-> page_token, is_start |-> is_start]

from_start(max_results) == new(max_results, None, TRUE)
\* a faulty from_token that marks the cursor as not yet started
from_token_as_start(max_results, page_token) == new(max_results, Some(page_token), TRUE)

from_token(max_results, page_token) == new(max_results, Some(page_token), FALSE)
default == new(None, None, TRUE)

\* a faulty set_page_token that leaves is_start as it is
set_page_token_keeps_start(p, token) == [p EXCEPT !.page_token = token]

set_page_token(p, token) == [p EXCEPT !.is_start = FALSE, !.page_token = token]

\* a faulty has_next_page that takes the empty token for a further page
has_next_page_any_token(p) == p.is_start \/ is_some(p.page_token)

has_next_page(p) ==
    p.is_start \/ (is_some(p.page_token) /\ p.page_token # Some(""))

\* a faulty is_finished that lost its negation
is_finished_inverted(p) == has_next_page(p)

is_finished(p) == ~has_next_page(p)

----------------------------------------------------------------------------
(* The profile's credential and the authorization of a request. *)

\* latest instant of the clock and of an expiration time
MaxTime == 4
Times == 0..MaxTime

BearerToken(token, expiration_time) ==
    [token |-> token, expiration_time |-> expiration_time]

TokenValues == {"tokA", "tokB"}
BearerTokens ==
    {BearerToken(t, x) : t \in TokenValues, x \in {None} \cup {Some(i) : i \in Times}}

\* a faulty has_expired that counts the expiration instant itself as past
has_expired_at_instant(b, t) ==
    IF is_some(b.expiration_time) THEN unwrap(b.expiration_time) <= t ELSE FALSE

\* BearerToken::has_expired at clock reading t
has_expired(b, t) ==
    IF is_some(b.expiration_time) THEN unwrap(b.expiration_time) < t ELSE FALSE

\* TokenProvider for Profile hands over to TokenProvider for BearerToken
provide_token(b) == Ok(b.token)

\* client.request(Method::GET, url): no Authorization header yet
RequestBuilder(o, url) == [op |-> o, url |-> url, authorization |-> None]

\* a faulty bearer_auth that sends the bare token
bearer_auth_bare(req, token) == [req EXCEPT !.authorization = Some(token)]

\* RequestBuilder::bearer_auth
bearer_auth(req, token) == [req EXCEPT !.authorization = Some("Bearer " \o token)]

\* AuthorizationExt::authorize
authorize(req, b) ==
    IF provide_token(b).ok
    THEN Ok(bearer_auth(req, provide_token(b).val))
    ELSE provide_token(b)

----------------------------------------------------------------------------
(* The aggregating list operations: list_shares, list_schemas,             *)
(* list_tables_in_share and list_tables_in_schema run the same loop over   *)
(* their own raw single-page call.                                         *)

ListOps == {"list_shares", "list_schemas", "list_tables_in_share", "list_tables_in_schema"}

\* the payload type of each operation's raw call
PayloadOf(o) ==
    CASE o = "list_shares" -> "ListSharesResponse"
      [] o = "list_schemas" -> "ListSchemasResponse"
      [] o \in {"list_tables_in_share", "list_tables_in_schema"} -> "ListTablesResponse"
      [] OTHER -> "GetShareResponse"

\* url::Host: a domain name or an IPv4 address, by its text
Domain(name) == [kind |-> "Domain", name |-> name]
Ipv4(address) == [kind |-> "Ipv4", name |-> address]

\* a Url without a port: scheme, host, path segments, query pairs (None for
\* no query) and fragment; the path "/delta-sharing/" is the segments
\* "delta-sharing", ""
Url(scheme, host, path, query, fragment) ==
    [cannot_be_a_base |-> FALSE, scheme |-> scheme, host |-> host, port |-> None,
     path |-> path, query |-> query, fragment |-> fragment]

\* https://sharing.delta.io/delta-sharing/
DeltaSharingIo == Url("https", Some(Domain("sharing.delta.io")), <<"delta-sharing", "">>, None, None)
\* http://delta.io/
DeltaIo == Url("http", Some(Domain("delta.io")), <<"">>, None, None)
\* https://sharing.delta.io/delta-sharing/?region=eu#top
WithQuery ==
    Url("https", Some(Domain("sharing.delta.io")), <<"delta-sharing", "">>,
        Some(<< [key |-> "region", value |-> "eu"] >>), Some("top"))
\* mailto:admin
Mailto ==
    [cannot_be_a_base |-> TRUE, scheme |-> "mailto", host |-> None, port |-> None,
     path |-> <<"admin">>, query |-> None, fragment |-> None]

\* the endpoints a Profile can hold: an http(s) URL, or a URL that cannot be
\* a base (mailto:, data:), which Url::parse accepts as well
Endpoints == {DeltaSharingIo, Mailto}

\* Url::join of a resource path fails on a cannot-be-a-base URL
join_fails(e) == e.cannot_be_a_base

----------------------------------------------------------------------------
(* Request URLs.  Text handed to the URL parser is a sequence of tokens:   *)
(* each of the characters / ? # = & % + is a token of its own, the two hex *)
(* digits after a % are one token, and any other token is a run of         *)
(* characters the parser copies as it finds them.  A percent-escape stands *)
(* for a printable ASCII character other than the grave accent.  The path  *)
(* of a URL keeps its percent-escapes; the query is held as the pairs      *)
(* query_pairs() yields, which are decoded.                                *)

UpperCase ==
    <<"A", "B", "C", "D", "E", "F", "G", "H", "I", "J", "K", "L", "M",
      "N", "O", "P", "Q", "R", "S", "T", "U", "V", "W", "X", "Y", "Z">>
LowerCase ==
    <<"a", "b", "c", "d", "e", "f", "g", "h", "i", "j", "k", "l", "m", 
      "n", "o", "p", "q", "r", "s", "t", "u", "v", "w", "x", "y", "z">>

\* char::to_lowercase on an ASCII character
lower(c) ==
    IF \E i \in 1..26 : UpperCase[i] = c
    THEN LowerCase[CHOOSE i \in 1..26 : UpperCase[i] = c]
    ELSE c

\* str::to_lowercase
to_lowercase(s) == [i \in 1..Len(s) |-> lower(s[i])]

IsAlpha(c) == \E i \in 1..26 : c = UpperCase[i] \/ c = LowerCase[i]

\* v evaluated once and handed to F
let(v, F(_)) == CHOOSE out \in {F(x) : x \in {v}} : TRUE

RECURSIVE Concat(_)
Concat(ts) == let(ts, LAMBDA t : IF t = <<>> THEN "" ELSE Head(t) \o Concat(Tail(t)))

RECURSIVE Join(_, _)
\* the texts of ts with sep between them
Join(ts, sep) ==
    let(ts, LAMBDA t :
        IF t = <<>> THEN ""
        ELSE IF Len(t) = 1 THEN Head(t)
        ELSE Head(t) \o sep \o Join(Tail(t), sep))

\* position of the first token c in ts, 0 when there is none
IndexOf(ts, c) ==
    let(ts, LAMBDA t :
        IF \A i \in 1..Len(t) : t[i] # c THEN 0
        ELSE CHOOSE i \in 1..Len(t) : t[i] = c /\ \A j \in 1..(i - 1) : t[j] # c)

Before(ts, c) ==
    let(ts, LAMBDA t : let(IndexOf(t, c), LAMBDA i : IF i = 0 THEN t ELSE SubSeq(t, 1, i - 1)))
After(ts, c) ==
    let(ts, LAMBDA t :
        let(IndexOf(t, c), LAMBDA i : IF i = 0 THEN <<>> ELSE SubSeq(t, i + 1, Len(t))))

RECURSIVE Split(_, _)
Split(ts, c) ==
    let(ts, LAMBDA t :
        IF IndexOf(t, c) = 0 THEN <<t>> ELSE <<Before(t, c)>> \o Split(After(t, c), c))

HexDigits ==
    <<"0", "1", "2", "3", "4", "5", "6", "7", "8", "9", "a", "b", "c", "d", "e", "f">>
is_ascii_hexdigit(c) == \E i \in 1..16 : lower(c) = HexDigits[i]
\* char::to_digit(16)
hex_value(c) == (CHOOSE i \in 1..16 : lower(c) = HexDigits[i]) - 1

\* the ASCII characters from the space (0x20) to _ (0x5F) and from a (0x61)
\* to ~ (0x7E), in their order
AsciiFromSpace ==
    <<" ", "!", "\"", "#", "$", "%", "&", "'", "(", ")", "*", "+", ",", "-", ".", "/",
      "0", "1", "2", "3", "4", "5", "6", "7", "8", "9", ":", ";", "<", "=", ">", "?",
      "@", "A", "B", "C", "D", "E", "F", "G", "H", "I", "J", "K", "L", "M", "N", "O",
      "P", "Q", "R", "S", "T", "U", "V", "W", "X", "Y", "Z", "[", "\\", "]", "^", "_">>
AsciiFromA ==
    <<"a", "b", "c", "d", "e", "f", "g", "h", "i", "j", "k", "l", "m", "n", "o",
      "p", "q", "r", "s", "t", "u", "v", "w", "x", "y", "z", "{", "|", "}", "~">>

\* the character with the code n
from_u8(n) == IF n < 96 THEN AsciiFromSpace[n - 31] ELSE AsciiFromA[n - 96]

\* the two hex digits of a percent-escape, in either case, and the byte
\* they denote
HexDigitChars == {HexDigits[i] : i \in 1..16} \cup {"A", "B", "C", "D", "E", "F"}
hex_pair(h) == CHOOSE pair \in HexDigitChars \X HexDigitChars : pair[1] \o pair[2] = h
hex_byte(h) == 16 * hex_value(hex_pair(h)[1]) + hex_value(hex_pair(h)[2])

\* the percent-escapes of the model: those of the characters above
HexPairs ==
    { pair[1] \o pair[2] : pair \in
        { q \in HexDigitChars \X HexDigitChars :
            16 * hex_value(q[1]) + hex_value(q[2]) \in (32..95) \cup (97..126) } }

\* the character a percent-escape stands for
from_hex(h) == from_u8(hex_byte(h))

RECURSIVE decode(_)
\* form_urlencoded::decode: "+" becomes a space and every percent-escape
\* the character it stands for; a "%" no hex pair follows is copied
decode(ts) ==
    let(ts, LAMBDA t :
        IF t = <<>> THEN ""
        ELSE IF Head(t) = "+" THEN " " \o decode(Tail(t))
        ELSE IF Head(t) = "%" /\ Len(t) >= 2 /\ t[2] \in HexPairs
             THEN from_hex(t[2]) \o decode(SubSeq(t, 3, Len(t)))
        ELSE Head(t) \o decode(Tail(t)))

RECURSIVE parse_pairs(_)
\* form_urlencoded::parse over the pieces between the & characters: an empty
\* piece is skipped, key and value are cut at the first = and decoded
parse_pairs(pieces) ==
    let(pieces, LAMBDA ps :
        IF ps = <<>> THEN <<>>
        ELSE IF Head(ps) = <<>> THEN parse_pairs(Tail(ps))
        ELSE << [key |-> decode(Before(Head(ps), "=")),
                 value |-> decode(After(Head(ps), "="))] >> \o parse_pairs(Tail(ps)))

RECURSIVE segments(_)
\* the text of each segment
segments(pieces) ==
    let(pieces, LAMBDA ps :
        IF ps = <<>> THEN <<>> ELSE <<Concat(Head(ps))>> \o segments(Tail(ps)))

\* position of the first of the tokens stops in ts, Len(ts) + 1 when there
\* is none
find(ts, stops) ==
    let(ts, LAMBDA t :
        IF \A i \in 1..Len(t) : t[i] \notin stops THEN Len(t) + 1
        ELSE CHOOSE i \in 1..Len(t) : t[i] \in stops /\ \A j \in 1..(i - 1) : t[j] \notin stops)

\* the single-dot and the double-dot path segments of the URL parser
single_dot(segment) == Concat(segment) \in {".", "%2e", "%2E"}
double_dot(segment) ==
    Concat(segment) \in {"..", "%2e%2e", "%2e%2E", "%2E%2e", "%2E%2E",
                          "%2e.", "%2E.", ".%2e", ".%2E"}

\* a Windows drive letter: a letter and a colon, as two characters or as
\* one run of the two (no text holds the | that may stand for the colon)
is_windows_drive_letter(segment) ==
    \/ Len(segment) = 2 /\ IsAlpha(segment[1]) /\ segment[2] = ":"
    \/ Len(segment) = 1
         /\ \E i \in 1..26 : segment[1] \in {UpperCase[i] \o ":", LowerCase[i] \o ":"}

\* what a double-dot segment does to the path (last_slash_can_be_removed,
\* Parser::shorten_path, pop_path): the last segment goes, but the slash
\* after a drive letter is not removed, so a drive letter that is the last
\* segment stays, whatever the scheme
shorten_path(path) ==
    IF path = <<>> THEN path
    ELSE IF is_windows_drive_letter(path[Len(path)]) THEN path
    ELSE SubSeq(path, 1, Len(path) - 1)

\* one turn of the loop of Parser::parse_path, on the first of the pieces
\* ps: a double-dot segment shortens the path, a dot segment adds nothing
\* but the empty segment at the end of the path
path_step(path, ps) ==
    IF double_dot(Head(ps))
    THEN shorten_path(path) \o (IF Len(ps) = 1 THEN << <<>> >> ELSE <<>>)
    ELSE IF single_dot(Head(ps))
    THEN path \o (IF Len(ps) = 1 THEN << <<>> >> ELSE <<>>)
    ELSE path \o <<Head(ps)>>

RECURSIVE parse_path(_, _)
\* Parser::parse_path on the pieces between the / characters, the last piece
\* being the one no / follows
parse_path(path, pieces) ==
    let(pieces, LAMBDA ps :
        IF ps = <<>> THEN path ELSE parse_path(path_step(path, ps), Tail(ps)))

RECURSIVE drive_letter_first(_, _)
\* Parser::parse_path on a file URL finds a drive letter where the first
\* segment of the path stands (and tells its caller that the URL has no
\* host)
drive_letter_first(path, pieces) ==
    let(pieces, LAMBDA ps :
        IF ps = <<>> THEN FALSE
        ELSE IF path = <<>> /\ ~double_dot(Head(ps)) /\ ~single_dot(Head(ps))
                  /\ is_windows_drive_letter(Head(ps))
        THEN TRUE
        ELSE drive_letter_first(path_step(path, ps), Tail(ps)))

RECURSIVE trim_start_slashes(_)
\* the end of Parser::parse_path on a file URL: the empty segments the
\* path begins with are removed, down to its last segment
trim_start_slashes(path) ==
    IF Len(path) > 1 /\ Head(path) = <<>> THEN trim_start_slashes(Tail(path)) ELSE path

\* the path of a URL of the scheme given, from the path before the pieces
\* are read
path_of(scheme, path, pieces) ==
    IF scheme = "file" THEN trim_start_slashes(parse_path(path, pieces))
    ELSE parse_path(path, pieces)

\* Parser::parse_query_and_fragment on what follows the path: the fragment
\* is what follows the first #, the query what stands between a leading ?
\* and it
parse_query_and_fragment(ts) ==
    let(ts, LAMBDA t :
        [query |-> IF t # <<>> /\ Head(t) = "?"
                   THEN Some(parse_pairs(Split(Tail(Before(t, "#")), "&")))
                   ELSE None,
         fragment |-> IF IndexOf(t, "#") = 0 THEN None ELSE Some(Concat(After(t, "#")))])

\* the URL parser on a reference that starts with one "/", as every
\* reference the client builds does ("/shares..."): the path is cut at
\* every / up to the first ? or #, and the query and the fragment follow
\* On a file base (Parser::parse_file, file slash state) a reference whose
\* first segment is a drive letter takes the host away; any other
\* reference follows the drive letter of the base, if its path begins with
\* one, and the host is then not copied
parse_reference(base, ts) ==
    LET pieces == Split(SubSeq(ts, 2, find(ts, {"?", "#"}) - 1), "/")
        rest == parse_query_and_fragment(SubSeq(ts, find(ts, {"?", "#"}), Len(ts)))
        file == base.scheme = "file"
        drive_reference == file /\ is_windows_drive_letter(pieces[1])
        drive_base ==
            file /\ ~drive_reference /\ base.path # <<>>
                /\ is_windows_drive_letter(<<base.path[1]>>)
    IN  [host |-> IF drive_reference \/ drive_base THEN None ELSE base.host,
         path |-> segments(path_of(base.scheme,
                                   IF drive_base THEN << <<base.path[1]>> >> ELSE <<>>,
                                   pieces)),
         query |-> rest.query,
         fragment |-> rest.fragment]

\* Url::join with a reference that starts with one "/": scheme and port of
\* the base, path, query and fragment of the reference, and the host of
\* the base unless a drive letter takes it away
join(base, ts) ==
    IF join_fails(base) THEN Err("RelativeUrlWithCannotBeABaseBase")
    ELSE Ok(let(parse_reference(base, ts), LAMBDA reference :
                    [base EXCEPT !.host = reference.host,
                                 !.path = reference.path,
                                 !.query = reference.query,
                                 !.fragment = reference.fragment]))

\* Url::query_pairs_mut: an absent query becomes the empty query
query_pairs_mut(url) == [url EXCEPT !.query = IF @ = None THEN Some(<<>>) ELSE @]

\* Serializer::append_pair
append_pair(url, key, value) ==
    [url EXCEPT !.query = Some(unwrap(@) \o << [key |-> key, value |-> value] >>)]

DigitChar(d) ==
    CASE d = 0 -> "0" [] d = 1 -> "1" [] d = 2 -> "2" [] d = 3 -> "3" [] d = 4 -> "4"
      [] d = 5 -> "5" [] d = 6 -> "6" [] d = 7 -> "7" [] d = 8 -> "8" [] d = 9 -> "9"

RECURSIVE to_string(_)
\* u32::to_string
to_string(n) ==
    let(n, LAMBDA k : IF k < 10 THEN DigitChar(k) ELSE to_string(k \div 10) \o DigitChar(k % 10))

RECURSIVE pad(_, _)
\* n in decimal, w digits wide with leading zeros
pad(n, w) ==
    let(n, LAMBDA k : IF w = 0 THEN "" ELSE pad(k \div 10, w - 1) \o DigitChar(k % 10))

\* a faulty with_pagination that writes the page token first
with_pagination_token_first(url, p) ==
    IF p.max_results = None /\ p.page_token = None THEN url
    ELSE LET tokened ==
                 IF is_some(p.page_token)
                 THEN append_pair(query_pairs_mut(url), "pageToken", unwrap(p.page_token))
                 ELSE query_pairs_mut(url)
         IN  IF is_some(p.max_results)
             THEN append_pair(tokened, "maxResults", to_string(unwrap(p.max_results)))
             ELSE tokened

\* PaginationExt for Url
with_pagination(url, p) ==
    IF p.max_results = None /\ p.page_token = None THEN url
    ELSE LET limited ==
                 IF is_some(p.max_results)
                 THEN append_pair(query_pairs_mut(url), "maxResults",
                                  to_string(unwrap(p.max_results)))
                 ELSE query_pairs_mut(url)
         IN  IF is_some(p.page_token)
             THEN append_pair(limited, "pageToken", unwrap(p.page_token))
             ELSE limited

\* an instant of DateTime<Utc>, by its calendar fields
DateTime(year, month, day, hour, minute, second, nanosecond) ==
    [year |-> year, month |-> month, day |-> day, hour |-> hour, minute |-> minute,
     second |-> second, nanosecond |-> nanosecond]

\* the fraction of DateTime::to_rfc3339 (SecondsFormat::AutoSi): none, or 3,
\* 6 or 9 digits
fraction(ns) ==
    IF ns = 0 THEN ""
    ELSE IF ns % 1000000 = 0 THEN "." \o pad(ns \div 1000000, 3)
    ELSE IF ns % 1000 = 0 THEN "." \o pad(ns \div 1000, 6)
    ELSE "." \o pad(ns, 9)

\* DateTime<Utc>::to_rfc3339
\* the year as chrono writes it: four digits, or the sign and at least four
\* digits for a year outside 0..9999
write_year(y) ==
    IF y \in 0..9999 THEN pad(y, 4)
    ELSE (IF y < 0 THEN "-" ELSE "+")
             \o let(IF y < 0 THEN 0 - y ELSE y, LAMBDA a :
                    IF a < 10000 THEN pad(a, 4) ELSE to_string(a))

to_rfc3339(ts) ==
    write_year(ts.year) \o "-" \o pad(ts.month, 2) \o "-" \o pad(ts.day, 2) \o "T"
        \o pad(ts.hour, 2) \o ":" \o pad(ts.minute, 2) \o ":" \o pad(ts.second, 2)
        \o fraction(ts.nanosecond) \o "+00:00"

\* Result::map, Result::and_then and Result::map_err with a fixed error: the
\* result is evaluated once and the closure gets its value
map(res, F(_)) == let(res, LAMBDA r : IF r.ok THEN Ok(F(r.val)) ELSE r)
and_then(res, F(_)) == let(res, LAMBDA r : IF r.ok THEN F(r.val) ELSE r)
map_err(res, e) == let(res, LAMBDA r : IF r.ok THEN r ELSE Err(e))

\* TableVersionQuery of client.rs
Latest == [kind |-> "Latest"]
Timestamp(ts) == [kind |-> "Timestamp", ts |-> ts]

\* TableVersionQuery::to_timestamp
to_timestamp(v) == IF v.kind = "Latest" THEN None ELSE Some(to_rfc3339(v.ts))

\* the format! string each raw operation joins to the endpoint: the names
\* are put in as they are
resource_path(o, ar) ==
    CASE o = "list_shares" -> <<"/", "shares">>
      [] o = "get_share" -> <<"/", "shares", "/">> \o ar.share
      [] o = "list_schemas" -> <<"/", "shares", "/">> \o ar.share \o <<"/", "schemas">>
      [] o = "list_tables_in_share" ->
            <<"/", "shares", "/">> \o ar.share \o <<"/", "schemas", "/", "all-tables">>
      [] o = "list_tables_in_schema" ->
            <<"/", "shares", "/">> \o ar.share \o <<"/", "schemas", "/">> \o ar.schema
                \o <<"/", "tables">>
      [] o = "get_table_version" ->
            <<"/", "shares", "/">> \o ar.share \o <<"/", "schemas", "/">> \o ar.schema
                \o <<"/", "tables", "/">> \o ar.table \o <<"/", "version">>
      [] o = "get_table_metadata_raw" ->
            <<"/", "shares", "/">> \o ar.share \o <<"/", "schemas", "/">> \o ar.schema
                \o <<"/", "tables", "/">> \o ar.table \o <<"/", "metadata">>

\* the URL get_table_version_raw requests
version_url(e, ar) ==
    map(join(e, resource_path("get_table_version", ar)),
        LAMBDA url :
            IF is_some(to_timestamp(ar.version))
            THEN append_pair(query_pairs_mut(url), "startingTimestamp",
                             unwrap(to_timestamp(ar.version)))
            ELSE url)

\* the URL a raw list operation requests
page_url(e, o, ar, p) ==
    map(join(e, resource_path(o, ar)), LAMBDA url : with_pagination(url, p))

\* the URL of the request of operation o
request_url(e, o, ar, p) ==
    CASE o \in ListOps -> page_url(e, o, ar, p)
      [] o = "get_table_version" -> version_url(e, ar)
      [] OTHER -> join(e, resource_path(o, ar))

\* the arguments of a call: share, schema and table name, version query
Args(share, schema, table, version) ==
    [share |-> share, schema |-> schema, table |-> table, version |-> version]

PlainArgs == Args(<<"share1">>, <<"schema1">>, <<"table1">>, Latest)

\* what the transport hands back to a raw call: a send failure or a response
TransportFailures == {[failed |-> TRUE, text |-> "error sending request"]}
Arrivals == TransportFailures \cup {[failed |-> FALSE, response |-> r] : r \in Responses}

\* the request a raw call builds before sending: the URL is joined, then
\* the builder is authorized with the profile
prepare(e, b, o, ar, p) ==
    and_then(map_err(request_url(e, o, ar, p), internal("failed to construct URL")),
             LAMBDA url : map_err(authorize(RequestBuilder(o, url), b),
                                  profile("failed to authorize request")))

\* a raw call: prepare the request, send it, classify the response
\* the rest of a raw call once the request is prepared: the error of the
\* preparation, or send and classify what arrives
answer(issued, o, a) ==
    IF ~issued.ok THEN issued
    ELSE IF a.failed THEN Err(from_reqwest_error(a.text))
    ELSE handle_response(PayloadOf(o), a.response)

raw_result(e, b, o, ar, p, a) == answer(prepare(e, b, o, ar, p), o, a)

\* history and counter keep their exact value up to MaxRequests
Count(n) == IF n < MaxRequests THEN n + 1 ELSE n
Record(h, page) == IF Len(h) < MaxRequests THEN Append(h, page) ELSE h

\* request.send(): a prepared request goes out on the network, a raw call
\* that failed to prepare one sends nothing
send(log, prepared) == IF prepared.ok THEN Record(log, prepared.val) ELSE log

\* what the call keeps of the answer to a request it sent: for a page request
\* whether the transport failed, for a single-round-trip request all of it
receive(w, prepared, o, a) ==
    IF ~prepared.ok THEN w
    ELSE IF o \in ListOps THEN Some([failed |-> a.failed])
    ELSE Some(a)

\* IntoIterator for ListResponse<T> yields the page's items in order, and
\* Vec::extend appends them
into_iter(page) == page.items

\* a faulty extend that puts the page in front of the vector
extend_in_front(v, page) == into_iter(page) \o v

extend(v, page) == v \o into_iter(page)

\* entry of an aggregating call: the empty vector and Pagination::default()
Call(o) ==
    /\ pc = "Idle"
    /\ op' = o
    /\ items' = <<>>
    /\ pagination' = default
    /\ pc' = "Start"
    /\ UNCHANGED <<result, requests, fetched, lastOutcome, yields, sent, wire, reading>>
    /\ UNCHANGED <<clientVars, cursorVars, classifyVars, tokenVars, renderVars, queryVars, errorVars,
                   urlVars, callsVars, loaderVars>>

\* the loop condition holds: the raw page call is issued with the cursor
SendPageRequest ==
    /\ pc \in {"Start", "Accumulating"}
    /\ ~is_finished(pagination)
    /\ pc' = "FetchingPage"
    /\ requests' = Count(requests)
    /\ sent' = send(sent, prepare(endpoint, bearer, op, args, pagination))
    /\ UNCHANGED <<op, pagination, items, result, fetched, lastOutcome, yields, wire, reading>>
    /\ UNCHANGED <<clientVars, cursorVars, classifyVars, tokenVars, renderVars, queryVars, errorVars,
                   urlVars, callsVars, loaderVars>>

\* the raw call returned Ok(page): set_page_token, then extend
PageFetched(res) ==
    /\ res.ok
    /\ pagination' = set_page_token(pagination, res.val.next_page_token)
    /\ items' = extend(items, res.val)
    /\ fetched' = Record(fetched, res.val)
    /\ lastOutcome' = Some(res)
    /\ pc' = "Accumulating"
    /\ UNCHANGED <<op, result, requests, yields>>

\* a faulty error path that hands back what was accumulated so far
PageFailedPartial(res) ==
    /\ ~res.ok
    /\ result' = Some(Ok(items))
    /\ lastOutcome' = Some(res)
    /\ pc' = "Failed"
    /\ UNCHANGED <<op, pagination, items, requests, fetched, yields>>

\* the raw call returned Err(e): the ? operator returns Err(e) from the call
PageFailed(res) ==
    /\ ~res.ok
    /\ result' = Some(Err(res.err))
    /\ lastOutcome' = Some(res)
    /\ pc' = "Failed"
    /\ UNCHANGED <<op, pagination, items, requests, fetched, yields>>

\* a raw call awaits response.json() when its request went out and a
\* response came back whose status picks an arm that reads the body
awaits_json(issued, a) == issued.ok /\ ~a.failed /\ reads_body(a.response)

\* request.send() of the awaited raw call, whose request is issued,
\* completes with what arrived: the raw call awaits the body of the response
\* or, with nothing to read, returns its error
Complete(issued, a) ==
    /\ pc = "FetchingPage"
    /\ IF awaits_json(issued, a)
       THEN /\ pc' = "ReadingBody"
            /\ reading' = Some(a.response)
            /\ UNCHANGED <<op, pagination, items, result, requests, fetched, lastOutcome,
                           yields>>
       ELSE /\ PageFailed(answer(issued, op, a))
            /\ reading' = None
    /\ wire' = receive(wire, issued, op, a)
    /\ sent' = sent
    /\ UNCHANGED <<clientVars, cursorVars, classifyVars, tokenVars, renderVars, queryVars, errorVars,
                   urlVars, callsVars, loaderVars>>

\* response.json() completes: handle_response and the raw call return, and
\* the loop body runs on what they returned
ReadBody ==
    /\ pc = "ReadingBody"
    /\ \E res \in {handle_response(PayloadOf(op), unwrap(reading))} :
           PageFetched(res) \/ PageFailed(res)
    /\ reading' = None
    /\ UNCHANGED <<sent, wire>>
    /\ UNCHANGED <<clientVars, cursorVars, classifyVars, tokenVars, renderVars, queryVars, errorVars,
                   urlVars, callsVars, loaderVars>>

\* the loop condition fails: Ok(vector)
Return ==
    /\ pc \in {"Start", "Accumulating"}
    /\ is_finished(pagination)
    /\ result' = Some(Ok(items))
    /\ yields' = yields + 1
    /\ pc' = "Done"
    /\ UNCHANGED <<op, pagination, items, requests, fetched, lastOutcome, sent, wire, reading>>
    /\ UNCHANGED <<clientVars, cursorVars, classifyVars, tokenVars, renderVars, queryVars, errorVars,
                   urlVars, callsVars, loaderVars>>

IdleCursor == ctor = "none" /\ nsets = 0 /\ lastSet = None
IdleClassify == payload = "none" /\ response = None /\ classified = None
IdleDriver ==
    /\ op = "none" /\ items = <<>> /\ result = None /\ requests = 0
    /\ fetched = <<>> /\ lastOutcome = None /\ yields = 0
    /\ sent = <<>> /\ wire = None /\ reading = None
IdleToken == provided = None /\ expired = None
IdleError == error = None /\ notFound = None
IdleUrl == args = PlainArgs /\ built = None
IdleCalls == calls = <<>>
IdleLoader == source = None /\ made = None
IdleRender == shown = None /\ logged = <<>>
IdleQuery == str = None /\ parsed = None

Init ==
    /\ pc = "Idle"
    /\ endpoint \in Endpoints
    /\ bearer = BearerToken("tokA", None)
    /\ now = 0
    /\ pagination = default
    /\ IdleDriver /\ IdleCursor /\ IdleClassify /\ IdleToken /\ IdleRender /\ IdleQuery /\ IdleError
    /\ IdleUrl /\ IdleCalls /\ IdleLoader

Next ==
    \/ \E o \in ListOps : Call(o)
    \/ requests < MaxRequests /\ SendPageRequest
    \/ pc = "FetchingPage" /\ \E issued \in {prepare(endpoint, bearer, op, args, pagination)} :
           \E a \in Arrivals : Complete(issued, a)
    \/ ReadBody
    \/ Return

Spec == Init /\ [][Next]_vars

(* The same call with no bound on the requests it sends.  The counter and  *)
(* the history stop at MaxRequests and the server stops sending items once *)
(* the accumulator holds MaxItems, which keeps the state space finite      *)
(* while the loop runs on.  The call and the server always take their next *)
(* step.  The server answers with a list page or a body that is not JSON,  *)
(* under a status of each arm of handle_response.                          *)

PageBodies ==
    {NotJson} \cup
    { [EmptyObject EXCEPT !.items = Some(i), !.next_page_token = t] :
        i \in ItemSeqs, t \in {None} \cup {Some(s) : s \in Tokens} }

PageArrivals ==
    TransportFailures \cup
    { [failed |-> FALSE, response |-> [status |-> st, body |-> b]] :
        st \in {OK, NOT_FOUND, INTERNAL_SERVER_ERROR} \cup OtherStatuses, b \in PageBodies }

Fits(issued, o, a) ==
    answer(issued, o, a).ok =>
        Len(items) + Len(answer(issued, o, a).val.items) <= MaxItems

NextUnbounded ==
    \/ \E o \in ListOps : Call(o)
    \/ SendPageRequest
    \/ pc = "FetchingPage" /\ \E issued \in {prepare(endpoint, bearer, op, args, pagination)} :
           \E a \in PageArrivals :
               pc = "FetchingPage" /\ Fits(issued, op, a) /\ Complete(issued, a)
    \/ ReadBody
    \/ Return

SpecUnbounded == Init /\ [][NextUnbounded]_vars /\ WF_vars(NextUnbounded)

----------------------------------------------------------------------------
(* The single-round-trip operations.  get_share and get_table_version call *)
(* their raw operation; get_table_metadata, get_table_data and             *)
(* get_table_changes are todo!() bodies.  A todo!() panics: the call       *)
(* unwinds and returns no value.  The raw operation get_table_metadata_raw *)
(* is public and no facade operation calls it: it sends its request and    *)
(* reaches its todo!() once the response is in.                            *)

RoundTripOps == {"get_share", "get_table_version"}
TodoOps == {"get_table_metadata", "get_table_data", "get_table_changes"}

\* the outcome of a body that reaches todo!()
todo == [panic |-> "not yet implemented"]
returns(outcome) == "ok" \in DOMAIN outcome

\* a faulty get_share that takes every error for a missing share
get_share_absent_on_error(res) ==
    IF res.ok THEN Ok(Some(res.val.share)) ELSE Ok(None)

\* get_share: the match on the result of get_share_raw
get_share(res) ==
    IF res.ok THEN Ok(Some(res.val.share))
    ELSE IF is_not_found(res.err) THEN Ok(None)
    ELSE Err(res.err)

\* the Delta-Table-Version header of a response: absent, or its characters
VersionHeaders ==
    {None, Some(<<"4", "2">>), Some(<<"0">>), Some(<<"+", "7">>), Some(<<"-", "1">>),
     Some(<<"4", "x">>), Some(<<>>)}

VersionResponses ==
    [status : Statuses, body : {NotJson} \cup ErrorBodies, version : VersionHeaders]

VersionArrivals ==
    TransportFailures \cup {[failed |-> FALSE, response |-> r] : r \in VersionResponses}

DigitOf(c) ==
    CASE c = "0" -> 0 [] c = "1" -> 1 [] c = "2" -> 2 [] c = "3" -> 3 [] c = "4" -> 4
      [] c = "5" -> 5 [] c = "6" -> 6 [] c = "7" -> 7 [] c = "8" -> 8 [] c = "9" -> 9

IsDigit(c) == c \in {"0", "1", "2", "3", "4", "5", "6", "7", "8", "9"}

RECURSIVE parse_digits(_, _)
parse_digits(cs, acc) ==
    IF cs = <<>> THEN Some(acc)
    ELSE IF ~IsDigit(Head(cs)) THEN None
    ELSE parse_digits(Tail(cs), acc * 10 + DigitOf(Head(cs)))

\* str::parse::<u64>().ok(): decimal digits after an optional plus sign; the
\* header values of the model stay far below u64::MAX
parse_u64(cs) ==
    IF cs = <<>> THEN None
    ELSE IF Head(cs) = "+"
         THEN (IF Tail(cs) = <<>> THEN None ELSE parse_digits(Tail(cs), 0))
    ELSE parse_digits(cs, 0)

\* the match on the status in get_table_version_raw
version_match(r) ==
    CASE r.status = OK ->
            IF is_some(r.version) /\ is_some(parse_u64(unwrap(r.version)))
            THEN Ok(unwrap(parse_u64(unwrap(r.version))))
            ELSE Err(parse_response("parsing delta-table-version header failed"))
      [] r.status \in {BAD_REQUEST, UNAUTHORIZED, FORBIDDEN, NOT_FOUND} ->
            Err(internal("ugh"))
      [] r.status = INTERNAL_SERVER_ERROR -> Err(internal("ugh"))
      [] OTHER -> Err(internal("unknown server response"))

\* the request get_table_version_raw builds before sending
prepare_version(e, b, ar) ==
    and_then(map_err(version_url(e, ar), internal("failed to construct endpoint URL")),
             LAMBDA url : map_err(authorize(RequestBuilder("get_table_version", url), b),
                                  profile("failed to authorize request. Reason: ")))

\* get_table_version_raw: the value of the match on the status is dropped
\* (the match is a statement) and the body ends in todo!()
version_answer(issued, a) ==
    IF ~issued.ok THEN issued
    ELSE IF a.failed THEN Err(from_reqwest_error(a.text))
    ELSE LET dropped == version_match(a.response) IN todo

get_table_version_raw(e, b, ar, a) == version_answer(prepare_version(e, b, ar), a)

\* the request get_table_metadata_raw builds before sending
prepare_metadata(e, b, ar) ==
    and_then(map_err(join(e, resource_path("get_table_metadata_raw", ar)),
                     internal("failed to construct endpoint URL")),
             LAMBDA url : map_err(authorize(RequestBuilder("get_table_metadata_raw", url), b),
                                  profile("failed to authorize request. Reason: ")))

\* get_table_metadata_raw: the error of the preparation or of the transport,
\* or the todo!() after the status of the response is read
metadata_answer(issued, a) ==
    IF ~issued.ok THEN issued
    ELSE IF a.failed THEN Err(from_reqwest_error(a.text))
    ELSE todo

\* the request of a single-round-trip operation
prepared(e, b, o, ar, p) ==
    CASE o = "get_table_version" -> prepare_version(e, b, ar)
      [] o = "get_table_metadata_raw" -> prepare_metadata(e, b, ar)
      [] OTHER -> prepare(e, b, o, ar, p)

\* entry of a single-round-trip operation: the raw call is issued
SendRequest(o) ==
    /\ pc = "Idle"
    /\ op' = o
    /\ pc' = "Awaiting"
    /\ requests' = Count(requests)
    /\ sent' = send(sent, prepared(endpoint, bearer, o, args, pagination))
    /\ UNCHANGED <<pagination, items, result, fetched, lastOutcome, yields, wire, reading>>
    /\ UNCHANGED <<clientVars, cursorVars, classifyVars, tokenVars, renderVars, queryVars, errorVars,
                   urlVars, callsVars, loaderVars>>

\* get_share_raw returned res: the match of get_share on it
ShareReturned(res) ==
    /\ lastOutcome' = Some(res)
    /\ result' = Some(get_share(res))
    /\ pc' = IF get_share(res).ok THEN "Done" ELSE "Failed"
    /\ yields' = IF get_share(res).ok THEN yields + 1 ELSE yields
    /\ UNCHANGED <<op, pagination, items, requests, fetched>>

\* request.send() of get_share_raw completes with what arrived:
\* get_share_raw awaits the body of the response or, with nothing to read,
\* returns its error to get_share
GetShareResponds(issued, a) ==
    /\ pc = "Awaiting"
    /\ op = "get_share"
    /\ IF awaits_json(issued, a)
       THEN /\ pc' = "AwaitingBody"
            /\ reading' = Some(a.response)
            /\ UNCHANGED <<op, pagination, items, result, requests, fetched, lastOutcome,
                           yields>>
       ELSE /\ ShareReturned(answer(issued, op, a))
            /\ reading' = None
    /\ wire' = receive(wire, issued, op, a)
    /\ sent' = sent
    /\ UNCHANGED <<clientVars, cursorVars, classifyVars, tokenVars, renderVars, queryVars, errorVars,
                   urlVars, callsVars, loaderVars>>

\* response.json() completes: get_share_raw and get_share return
GetShareReturns ==
    /\ pc = "AwaitingBody"
    /\ op = "get_share"
    /\ \E res \in {handle_response(PayloadOf(op), unwrap(reading))} : ShareReturned(res)
    /\ reading' = None
    /\ UNCHANGED <<sent, wire>>
    /\ UNCHANGED <<clientVars, cursorVars, classifyVars, tokenVars, renderVars, queryVars, errorVars,
                   urlVars, callsVars, loaderVars>>

\* get_table_version_raw completes: get_table_version hands on its result,
\* or unwinds with it
GetTableVersionReturns(issued, a) ==
    /\ pc = "Awaiting"
    /\ op = "get_table_version"
    /\ IF returns(version_answer(issued, a))
       THEN /\ lastOutcome' = Some(version_answer(issued, a))
            /\ result' = Some(version_answer(issued, a))
            /\ pc' = IF version_answer(issued, a).ok THEN "Done" ELSE "Failed"
       ELSE /\ pc' = "Panicked"
            /\ UNCHANGED <<lastOutcome, result>>
    /\ wire' = receive(wire, issued, op, a)
    /\ UNCHANGED <<op, pagination, items, requests, fetched, yields, sent, reading>>
    /\ UNCHANGED <<clientVars, cursorVars, classifyVars, tokenVars, renderVars, queryVars, errorVars,
                   urlVars, callsVars, loaderVars>>

\* get_table_metadata_raw returns the error of its preparation or of the
\* transport, or unwinds at its todo!() with the response in hand
GetTableMetadataRawReturns(issued, a) ==
    /\ pc = "Awaiting"
    /\ op = "get_table_metadata_raw"
    /\ IF returns(metadata_answer(issued, a))
       THEN /\ lastOutcome' = Some(metadata_answer(issued, a))
            /\ result' = Some(metadata_answer(issued, a))
            /\ pc' = "Failed"
       ELSE /\ pc' = "Panicked"
            /\ UNCHANGED <<lastOutcome, result>>
    /\ wire' = receive(wire, issued, op, a)
    /\ UNCHANGED <<op, pagination, items, requests, fetched, yields, sent, reading>>
    /\ UNCHANGED <<clientVars, cursorVars, classifyVars, tokenVars, renderVars, queryVars, errorVars,
                   urlVars, callsVars, loaderVars>>

\* the facade operations get_table_metadata, get_table_data and
\* get_table_changes, whose body is todo!()
Todo(o) ==
    /\ pc = "Idle"
    /\ op' = o
    /\ pc' = "Panicked"
    /\ UNCHANGED <<pagination, items, result, requests, fetched, lastOutcome, yields,
                   sent, wire, reading>>
    /\ UNCHANGED <<clientVars, cursorVars, classifyVars, tokenVars, renderVars, queryVars, errorVars,
                   urlVars, callsVars, loaderVars>>

(* Every facade operation of a client, for every profile token. *)

InitFacade ==
    /\ pc = "Idle"
    /\ endpoint \in Endpoints
    /\ bearer \in {BearerToken(t, None) : t \in TokenValues}
    /\ now = 0
    /\ pagination = default
    /\ IdleDriver /\ IdleCursor /\ IdleClassify /\ IdleToken /\ IdleRender /\ IdleQuery /\ IdleError
    /\ IdleUrl /\ IdleCalls /\ IdleLoader

NextFacade ==
    \/ \E o \in ListOps : Call(o)
    \/ requests < MaxRequests /\ SendPageRequest
    \/ pc = "FetchingPage" /\ \E issued \in {prepare(endpoint, bearer, op, args, pagination)} :
           \E a \in Arrivals : Complete(issued, a)
    \/ ReadBody
    \/ Return
    \/ \E o \in RoundTripOps \cup {"get_table_metadata_raw"} : SendRequest(o)
    \/ pc = "Awaiting" /\ \E issued \in {prepared(endpoint, bearer, op, args, pagination)} :
           \E a \in Arrivals : GetShareResponds(issued, a)
    \/ GetShareReturns
    \/ pc = "Awaiting" /\ \E issued \in {prepared(endpoint, bearer, op, args, pagination)} :
           \E a \in VersionArrivals : GetTableVersionReturns(issued, a)
    \/ pc = "Awaiting" /\ \E issued \in {prepared(endpoint, bearer, op, args, pagination)} :
           \E a \in Arrivals : GetTableMetadataRawReturns(issued, a)
    \/ \E o \in TodoOps : Todo(o)

SpecFacade == InitFacade /\ [][NextFacade]_vars

----------------------------------------------------------------------------
(* provide_token on its own: any bearer token, at any clock reading. *)

ProvideToken ==
    /\ pc = "HasToken"
    /\ provided' = Some(provide_token(bearer))
    /\ pc' = "Provided"
    /\ UNCHANGED <<clientVars, pagination, driverVars, cursorVars, classifyVars, errorVars,
                   expired, urlVars, callsVars, loaderVars, renderVars, queryVars>>

\* bearer.has_expired() is evaluated while the clock reads now
HasExpired ==
    /\ pc = "HasToken"
    /\ expired' = Some(has_expired(bearer, now))
    /\ pc' = "Checked"
    /\ UNCHANGED <<clientVars, pagination, driverVars, cursorVars, classifyVars, errorVars,
                   provided, urlVars, callsVars, loaderVars, renderVars, queryVars>>

InitToken ==
    /\ pc = "HasToken"
    /\ endpoint = DeltaSharingIo
    /\ bearer \in BearerTokens
    /\ now \in Times
    /\ pagination = default
    /\ IdleDriver /\ IdleCursor /\ IdleClassify /\ IdleToken /\ IdleRender /\ IdleQuery /\ IdleError
    /\ IdleUrl /\ IdleCalls /\ IdleLoader

NextToken == ProvideToken \/ HasExpired

SpecToken == InitToken /\ [][NextToken]_vars

----------------------------------------------------------------------------
(* is_not_found on its own: any error the constructors can build. *)

ErrorMessages == {"", "m"}
ErrorCodes == {"", "SHARE_NOT_FOUND"}

Errors ==
    {internal(m) : m \in ErrorMessages} \cup {request(m) : m \in ErrorMessages}
        \cup {profile(m) : m \in ErrorMessages}
        \cup {parse_response(m) : m \in ErrorMessages}
        \cup {client(s, c, m) : s \in Statuses, c \in ErrorCodes, m \in ErrorMessages}
        \cup {server(s, c, m) : s \in Statuses, c \in ErrorCodes, m \in ErrorMessages}

\* StatusCode::canonical_reason
canonical_reason(status) ==
    CASE status = 200 -> "OK" [] status = 201 -> "Created" [] status = 204 -> "No Content"
      [] status = 400 -> "Bad Request" [] status = 401 -> "Unauthorized"
      [] status = 403 -> "Forbidden" [] status = 404 -> "Not Found"
      [] status = 418 -> "I'm a teapot" [] status = 429 -> "Too Many Requests"
      [] status = 500 -> "Internal Server Error" [] status = 503 -> "Service Unavailable"

\* Display for StatusCode: the number and the canonical reason
status_text(status) == to_string(status) \o " " \o canonical_reason(status)

\* impl fmt::Display for DeltaSharingError, as to_string() runs it: the arms
\* of the four plain kinds are todo!()
fmt(e) ==
    CASE e.kind = "ClientError" ->
            Ok("Client error: " \o status_text(e.status) \o " - " \o e.code \o " - "
               \o e.message)
      [] e.kind = "ServerError" ->
            Ok("Server error: " \o status_text(e.status) \o " - " \o e.code \o " - "
               \o e.message)
      [] e.kind = "Internal" -> todo
      [] e.kind = "Profile" -> todo
      [] e.kind = "ParseResponse" -> todo
      [] e.kind = "Request" -> todo

\* error.to_string()
Display ==
    /\ pc = "HasError"
    /\ shown' = Some(fmt(unwrap(error)))
    /\ pc' = "Shown"
    /\ UNCHANGED <<clientVars, pagination, driverVars, cursorVars, classifyVars,
                   tokenVars, errorVars, logged, queryVars, urlVars, callsVars, loaderVars>>

IsNotFound ==
    /\ pc = "HasError"
    /\ notFound' = Some(is_not_found(unwrap(error)))
    /\ pc' = "Asked"
    /\ UNCHANGED <<clientVars, pagination, driverVars, cursorVars, classifyVars,
                   tokenVars, renderVars, queryVars, error, urlVars, callsVars, loaderVars>>

InitError ==
    /\ pc = "HasError"
    /\ endpoint = DeltaSharingIo
    /\ bearer = BearerToken("tokA", None)
    /\ now = 0
    /\ pagination = default
    /\ error \in {Some(e) : e \in Errors}
    /\ notFound = None
    /\ IdleDriver /\ IdleCursor /\ IdleClassify /\ IdleToken /\ IdleRender /\ IdleQuery
    /\ IdleUrl /\ IdleCalls /\ IdleLoader

NextError == IsNotFound \/ Display

SpecError == InitError /\ [][NextError]_vars

----------------------------------------------------------------------------
(* A Pagination on its own: built by one of the public constructors, then  *)
(* advanced by set_page_token.                                             *)

MaxResultsValues == {None, Some(1), Some(100)}

Constructors ==
    {[name |-> "default", max_results |-> None, token |-> None]}
        \cup {[name |-> "from_start", max_results |-> m, token |-> None] :
                m \in MaxResultsValues}
        \cup {[name |-> "from_token", max_results |-> m, token |-> Some(t)] :
                m \in MaxResultsValues, t \in Tokens}

Construct(c) ==
    /\ pc = "Unbuilt"
    /\ ctor' = c
    /\ pagination' =
          CASE c.name = "default" -> default
            [] c.name = "from_start" -> from_start(c.max_results)
            [] c.name = "from_token" -> from_token(c.max_results, unwrap(c.token))
    /\ pc' = "Cursor"
    /\ UNCHANGED <<clientVars, nsets, lastSet, driverVars, classifyVars, tokenVars, renderVars, queryVars, errorVars,
                   urlVars, callsVars, loaderVars>>

SetPageToken(t) ==
    /\ pc = "Cursor"
    /\ nsets < MaxSets
    /\ pagination' = set_page_token(pagination, t)
    /\ nsets' = nsets + 1
    /\ lastSet' = Some(t)
    /\ UNCHANGED <<clientVars, pc, ctor, driverVars, classifyVars, tokenVars, renderVars, queryVars, errorVars,
                   urlVars, callsVars, loaderVars>>

InitCursor ==
    /\ pc = "Unbuilt"
    /\ endpoint = DeltaSharingIo
    /\ bearer = BearerToken("tokA", None)
    /\ now = 0
    /\ pagination = default
    /\ IdleDriver /\ IdleCursor /\ IdleClassify /\ IdleToken /\ IdleRender /\ IdleQuery /\ IdleError
    /\ IdleUrl /\ IdleCalls /\ IdleLoader

NextCursor ==
    \/ \E c \in Constructors : Construct(c)
    \/ \E t \in {None} \cup {Some(x) : x \in Tokens} : SetPageToken(t)

SpecCursor == InitCursor /\ [][NextCursor]_vars

\* the share names an aggregating call is made with: a plain one, and one
\* with a "?" in it
ShareNames == {<<"share1">>, <<"a", "?", "pageToken", "=", "x">>}

\* an aggregating call on a share of any of these names
InitNamed ==
    /\ pc = "Idle"
    /\ endpoint \in Endpoints
    /\ bearer = BearerToken("tokA", None)
    /\ now = 0
    /\ pagination = default
    /\ args \in {Args(share, <<"schema1">>, <<"table1">>, Latest) : share \in ShareNames}
    /\ built = None
    /\ IdleDriver /\ IdleCursor /\ IdleClassify /\ IdleToken /\ IdleRender /\ IdleQuery
    /\ IdleError /\ IdleCalls /\ IdleLoader

SpecNamed == InitNamed /\ [][Next]_vars

\* a Pagination on its own, or the Pagination of an aggregating call
InitPaging == Init \/ InitCursor

NextPaging == Next \/ NextCursor

SpecPaging == InitPaging /\ [][NextPaging]_vars

----------------------------------------------------------------------------
(* handle_response on its own: any payload type, status and body. *)

Classify ==
    /\ pc = "Responded"
    /\ classified' = Some(handle_response(payload, unwrap(response)))
    /\ pc' = "Classified"
    /\ UNCHANGED <<clientVars, pagination, payload, response, driverVars, cursorVars,
                   tokenVars, renderVars, queryVars, errorVars,
                   urlVars, callsVars, loaderVars>>

InitClassify ==
    /\ pc = "Responded"
    /\ endpoint = DeltaSharingIo
    /\ bearer = BearerToken("tokA", None)
    /\ now = 0
    /\ pagination = default
    /\ payload \in PayloadTypes
    /\ response \in {Some(r) : r \in Responses}
    /\ classified = None
    /\ IdleDriver /\ IdleCursor /\ IdleToken /\ IdleRender /\ IdleQuery /\ IdleError
    /\ IdleUrl /\ IdleCalls /\ IdleLoader

NextClassify == Classify

SpecClassify == InitClassify /\ [][NextClassify]_vars

----------------------------------------------------------------------------
(* Building a request URL on its own: any endpoint, operation, names,      *)
(* version query and cursor; and with_pagination on any URL.               *)

\* share, schema and table names, as token sequences; a%2Fb holds a
\* percent-escape, which the URL parser keeps in a path and query_pairs()
\* decodes in a query
Names ==
    {<<"a">>, <<"b">>, <<"a", "/", "b">>, <<"a", "?", "b">>, <<"a", "#", "b">>,
     <<"a", "%", "2F", "b">>, <<"t", "?", "startingTimestamp", "=", "x">>}

Timestamps ==
    {DateTime(2021, 8, 1, 0, 0, 0, 0), DateTime(1999, 12, 31, 23, 59, 59, 500000000)}

VersionQueries == {Latest} \cup {Timestamp(ts) : ts \in Timestamps}

Cursors ==
    {default} \cup {from_start(m) : m \in MaxResultsValues}
        \cup {from_token(m, t) : m \in MaxResultsValues, t \in Tokens}
        \cup {set_page_token(from_start(m), None) : m \in MaxResultsValues}

UrlEndpoints == {DeltaSharingIo, DeltaIo, WithQuery, Mailto}
UrlOps == ListOps \cup RoundTripOps

ArgsOf(o) ==
    CASE o \in {"get_share", "list_schemas", "list_tables_in_share"} ->
            {Args(s, <<"schema1">>, <<"table1">>, Latest) : s \in Names}
      [] o = "list_tables_in_schema" ->
            {Args(s, d, <<"table1">>, Latest) : s \in Names, d \in Names}
      [] o = "get_table_version" ->
            {Args(s, <<"schema1">>, t, v) : s \in Names, t \in Names, v \in VersionQueries}
      [] OTHER -> {PlainArgs}

CursorsOf(o) == IF o \in RoundTripOps THEN {default} ELSE Cursors

\* the URL of the request of an operation is built
BuildUrl ==
    /\ pc = "HasTarget"
    /\ op # "none"
    /\ built' = Some(request_url(endpoint, op, args, pagination))
    /\ pc' = "Built"
    /\ UNCHANGED <<clientVars, pagination, driverVars, cursorVars, classifyVars,
                   tokenVars, renderVars, queryVars, errorVars, args, callsVars, loaderVars>>

\* with_pagination is applied to the endpoint URL itself
WithPagination ==
    /\ pc = "HasTarget"
    /\ op = "none"
    /\ built' = Some(Ok(with_pagination(endpoint, pagination)))
    /\ pc' = "Paginated"
    /\ UNCHANGED <<clientVars, pagination, driverVars, cursorVars, classifyVars,
                   tokenVars, renderVars, queryVars, errorVars, args, callsVars, loaderVars>>

InitUrl ==
    /\ pc = "HasTarget"
    /\ endpoint \in UrlEndpoints
    /\ bearer = BearerToken("tokA", None)
    /\ now = 0
    /\ op \in UrlOps \cup {"none"}
    /\ args \in ArgsOf(op)
    /\ pagination \in CursorsOf(op)
    /\ built = None
    /\ items = <<>> /\ result = None /\ requests = 0
    /\ fetched = <<>> /\ lastOutcome = None /\ yields = 0
    /\ sent = <<>> /\ wire = None /\ reading = None
    /\ IdleCursor /\ IdleClassify /\ IdleToken /\ IdleRender /\ IdleQuery /\ IdleError /\ IdleCalls /\ IdleLoader

NextUrl == BuildUrl \/ WithPagination

SpecUrl == InitUrl /\ [][NextUrl]_vars

----------------------------------------------------------------------------
(* Cancellation of an aggregating call.  The call is a future: the caller  *)
(* cancels it by dropping it, which can happen before its first poll or    *)
(* while it is suspended in a raw page call, at the await of send() or of  *)
(* response.json().  A dropped future runs no more code and its locals,    *)
(* the response in hand among them, are dropped with it.                   *)

\* a faulty cancellation that hands back what was accumulated so far
CancelDelivering ==
    /\ pc \in {"Start", "FetchingPage", "ReadingBody"}
    /\ pc' = "Cancelled"
    /\ result' = Some(Ok(items))
    /\ reading' = None
    /\ UNCHANGED <<op, pagination, items, requests, fetched, lastOutcome, yields, sent, wire>>
    /\ UNCHANGED <<clientVars, cursorVars, classifyVars, tokenVars, renderVars, queryVars, errorVars,
                   urlVars, callsVars, loaderVars>>

\* the caller drops the future of the call
Cancel ==
    /\ pc \in {"Start", "FetchingPage", "ReadingBody"}
    /\ pc' = "Cancelled"
    /\ items' = <<>>
    /\ reading' = None
    /\ UNCHANGED <<op, pagination, result, requests, fetched, lastOutcome, yields, sent, wire>>
    /\ UNCHANGED <<clientVars, cursorVars, classifyVars, tokenVars, renderVars, queryVars, errorVars,
                   urlVars, callsVars, loaderVars>>

NextCancel == Next \/ Cancel

SpecCancel == Init /\ [][NextCancel]_vars

----------------------------------------------------------------------------
(* Concurrent aggregating calls on one client.  The operations take &self  *)
(* and the client has no interior mutability, so the calls share the       *)
(* profile read-only; the cursor and the vector are locals of each call.   *)
(* The steps of the calls interleave at their await points.                *)

CallIds == {"c1", "c2"}
ConcurrentOps == {"list_shares", "list_schemas"}

ConcurrentArrivals ==
    TransportFailures \cup
    { [failed |-> FALSE, response |-> [status |-> st, body |-> b]] :
        st \in {OK, NOT_FOUND},
        b \in { [EmptyObject EXCEPT !.items = Some(<<"A">>), !.next_page_token = Some("t1")],
                [EmptyObject EXCEPT !.items = Some(<<"B">>)] } }

\* the locals of a call, what it asked for and what came back to it
unstarted ==
    [pc |-> "Idle", op |-> "none", pagination |-> default, items |-> <<>>,
     result |-> None, asked |-> <<>>, got |-> <<>>, reading |-> None]

\* a faulty cursor that all calls read from the first call
cursor_shared(cs, c) == cs["c1"].pagination

\* the cursor a call reads: its own local
cursor(cs, c) == cs[c].pagination

CallBegins(c, o) ==
    /\ calls[c].pc = "Idle"
    /\ calls' = [calls EXCEPT ![c] = [@ EXCEPT !.pc = "Start", !.op = o, !.items = <<>>,
                                                !.pagination = default]]
    /\ UNCHANGED <<clientVars, pc, pagination, driverVars, cursorVars, classifyVars,
                   tokenVars, renderVars, queryVars, errorVars, urlVars, loaderVars>>

\* the raw call of c returned res: the loop body of c, or its ? operator
PageReturned(c, res) ==
    IF res.ok
    THEN [calls[c] EXCEPT !.pagination = set_page_token(cursor(calls, c),
                                                        res.val.next_page_token),
                          !.items = extend(@, res.val),
                          !.pc = "Accumulating",
                          !.reading = None]
    ELSE [calls[c] EXCEPT !.result = Some(Err(res.err)), !.pc = "Failed", !.reading = None]

\* the loop of c finds its cursor unfinished and calls the raw operation
\* with it.  The raw call builds the request issued and suspends at
\* request.send(); when the request cannot be built it returns the error
\* at once, nothing is sent and the ? operator ends the call
PageRequested(c, issued) ==
    /\ calls[c].pc \in {"Start", "Accumulating"}
    /\ ~is_finished(cursor(calls, c))
    /\ Len(calls[c].asked) < MaxRequests
    /\ calls' = [calls EXCEPT ![c] =
                    [(IF issued.ok THEN [@ EXCEPT !.pc = "FetchingPage"]
                                   ELSE PageReturned(c, issued))
                        EXCEPT !.asked = Append(@, cursor(calls, c).page_token)]]
    /\ UNCHANGED <<clientVars, pc, pagination, driverVars, cursorVars, classifyVars,
                   tokenVars, renderVars, queryVars, errorVars, urlVars, loaderVars>>

\* request.send() of the raw call of c completes with a: the raw call
\* awaits the body of the response or returns its error
PageResponded(c, issued, a) ==
    /\ calls[c].pc = "FetchingPage"
    /\ issued.ok
    /\ calls' = [calls EXCEPT ![c] =
                    IF awaits_json(issued, a)
                    THEN [@ EXCEPT !.pc = "ReadingBody", !.reading = Some(a.response),
                                   !.got = Append(@, a)]
                    ELSE [PageReturned(c, answer(issued, calls[c].op, a))
                              EXCEPT !.got = Append(@, a)]]
    /\ UNCHANGED <<clientVars, pc, pagination, driverVars, cursorVars, classifyVars,
                   tokenVars, renderVars, queryVars, errorVars, urlVars, loaderVars>>

\* response.json() of the raw call of c completes
PageCompleted(c) ==
    /\ calls[c].pc = "ReadingBody"
    /\ calls' = [calls EXCEPT ![c] =
                    PageReturned(c, handle_response(PayloadOf(calls[c].op),
                                                    unwrap(calls[c].reading)))]
    /\ UNCHANGED <<clientVars, pc, pagination, driverVars, cursorVars, classifyVars,
                   tokenVars, renderVars, queryVars, errorVars, urlVars, loaderVars>>

CallReturns(c) ==
    /\ calls[c].pc \in {"Start", "Accumulating"}
    /\ is_finished(cursor(calls, c))
    /\ calls' = [calls EXCEPT ![c] = [@ EXCEPT !.result = Some(Ok(calls[c].items)),
                                                !.pc = "Done"]]
    /\ UNCHANGED <<clientVars, pc, pagination, driverVars, cursorVars, classifyVars,
                   tokenVars, renderVars, queryVars, errorVars, urlVars, loaderVars>>

InitConcurrent ==
    /\ pc = "Idle"
    /\ endpoint \in Endpoints
    /\ bearer = BearerToken("tokA", None)
    /\ now = 0
    /\ pagination = default
    /\ calls = [c \in CallIds |-> unstarted]
    /\ IdleDriver /\ IdleCursor /\ IdleClassify /\ IdleToken /\ IdleRender /\ IdleQuery /\ IdleError
    /\ IdleUrl /\ IdleLoader

NextConcurrent ==
    \/ \E c \in CallIds, o \in ConcurrentOps : CallBegins(c, o)
    \/ \E c \in CallIds :
          calls[c].pc \in {"Start", "Accumulating"} /\
            \E issued \in {prepare(endpoint, bearer, calls[c].op, args, cursor(calls, c))} :
                PageRequested(c, issued)
    \/ \E c \in CallIds :
          calls[c].pc = "FetchingPage" /\
            \E issued \in {prepare(endpoint, bearer, calls[c].op, args, cursor(calls, c))} :
                \E a \in ConcurrentArrivals : PageResponded(c, issued, a)
    \/ \E c \in CallIds : PageCompleted(c)
    \/ \E c \in CallIds : CallReturns(c)

SpecConcurrent == InitConcurrent /\ [][NextConcurrent]_vars

----------------------------------------------------------------------------
(* Parsing a TableVersionQuery from a string.  The string is the sequence  *)
(* of its characters.  There are two TableVersionQuery types, one in       *)
(* request/query.rs and one in client.rs, each with its own FromStr.       *)

\* Display for chrono::ParseError, by kind
TooShort == "premature end of input"
Invalid == "input contains invalid characters"
OutOfRange == "input is out of range"
TooLong == "trailing input"

is_leap_year(y) == y % 4 = 0 /\ (y % 100 # 0 \/ y % 400 = 0)

days_in_month(y, m) ==
    IF m = 2 THEN (IF is_leap_year(y) THEN 29 ELSE 28)
    ELSE IF m \in {4, 6, 9, 11} THEN 30 ELSE 31

\* days from 1970-01-01 to the day y-m-d of the proleptic Gregorian calendar
days_from_civil(y, m, d) ==
    LET yy == IF m <= 2 THEN y - 1 ELSE y
        era == yy \div 400
        yoe == yy - era * 400
        doy == (153 * (IF m > 2 THEN m - 3 ELSE m + 9) + 2) \div 5 + d - 1
        doe == yoe * 365 + yoe \div 4 - yoe \div 100 + doy
    IN  era * 146097 + doe - 719468

\* the day of the calendar that lies z days after 1970-01-01
civil_from_days(z) ==
    LET zz == z + 719468
        era == zz \div 146097
        doe == zz - era * 146097
        yoe == (doe - doe \div 1460 + doe \div 36524 - doe \div 146096) \div 365
        doy == doe - (365 * yoe + yoe \div 4 - yoe \div 100)
        mp == (5 * doy + 2) \div 153
        m == IF mp < 10 THEN mp + 3 ELSE mp - 9
    IN  [year |-> yoe + era * 400 + (IF m <= 2 THEN 1 ELSE 0), month |-> m,
         day |-> doy - (153 * mp + 2) \div 5 + 1]

RECURSIVE pow10(_)
pow10(k) == IF k = 0 THEN 1 ELSE 10 * pow10(k - 1)

NotEnough == "input is not enough for unique date and time"
Impossible == "no possible date and time matching input"

Digits == {"0", "1", "2", "3", "4", "5", "6", "7", "8", "9"}

\* how many of the first characters of s, at most max, are in cs
span(s, cs, max) ==
    CHOOSE k \in 0..Len(s) :
        /\ k <= max
        /\ \A j \in 1..k : s[j] \in cs
        /\ k = max \/ k = Len(s) \/ s[k + 1] \notin cs

\* s without its first k characters
drop(s, k) == SubSeq(s, k + 1, Len(s))

\* char::is_whitespace on the characters of the texts: the blank, the
\* tab, the line feed, the form feed and the carriage return
WhiteSpace == {" ", "\t", "\n", "\f", "\r"}

\* str::trim_start
trim_start(s) == drop(s, span(s, WhiteSpace, Len(s)))

\* the value of a run of decimal digits
decimal(ds) == unwrap(parse_digits(ds, 0))

\* what a scanner returns: the rest of the input and the value scanned
scanned(rest, v) == Ok([rest |-> rest, v |-> v])

\* scan::number: the digits at the start of s, at least min and at most max
number(s, min, max) ==
    IF Len(s) < min THEN Err(TooShort)
    ELSE let(span(s, Digits, max), LAMBDA k :
             IF k < min THEN Err(Invalid) ELSE scanned(drop(s, k), SubSeq(s, 1, k)))

\* scan::nanosecond: up to nine digits scaled to nanoseconds, further
\* digits skipped
nanosecond(s) ==
    and_then(number(s, 1, 9), LAMBDA n :
        scanned(drop(n.rest, span(n.rest, Digits, Len(n.rest))),
                decimal(n.v) * pow10(9 - Len(n.v))))

\* scan::char
char(s, c) ==
    IF s = <<>> THEN Err(TooShort)
    ELSE IF Head(s) # c THEN Err(Invalid)
    ELSE scanned(Tail(s), c)

\* scan::colon_or_space: colons and white space skipped, none required
colon_or_space(s) == scanned(drop(s, span(s, {":"} \cup WhiteSpace, Len(s))), ":")

\* scan::timezone_offset with Z allowed and the minutes required, in
\* seconds east of UTC; relaxed tells whether the colon may be missing
\* (colon_or_space) or must stand (char)
timezone_offset(s, relaxed) ==
    IF s = <<>> THEN Err(TooShort)
    ELSE IF Head(s) \in {"Z", "z"} THEN scanned(Tail(s), 0)
    ELSE IF Head(s) \notin {"+", "-"} THEN Err(Invalid)
    ELSE IF Len(s) < 3 THEN Err(TooShort)
    ELSE IF ~(IsDigit(s[2]) /\ IsDigit(s[3])) THEN Err(Invalid)
    ELSE and_then(IF relaxed THEN colon_or_space(drop(s, 3)) ELSE char(drop(s, 3), ":"),
                  LAMBDA colon :
             IF Len(colon.rest) < 2 THEN Err(TooShort)
             ELSE IF colon.rest[1] \in {"0", "1", "2", "3", "4", "5"} /\ IsDigit(colon.rest[2])
                  THEN scanned(drop(colon.rest, 2),
                               (IF Head(s) = "-" THEN -1 ELSE 1)
                                   * (decimal(SubSeq(s, 2, 3)) * 3600
                                        + decimal(SubSeq(colon.rest, 1, 2)) * 60))
             ELSE IF IsDigit(colon.rest[1]) /\ IsDigit(colon.rest[2]) THEN Err(OutOfRange)
             ELSE Err(Invalid))

\* the years of NaiveDate, from NaiveDate::MIN to NaiveDate::MAX
Years == (-262143)..262142

\* NaiveDate::from_ymd_opt(..).is_some()
from_ymd_opt(y, m, d) ==
    /\ y \in Years
    /\ m \in 1..12
    /\ d \in 1..days_in_month(y, m)

\* the instant a local date and time with an offset of so many seconds
\* east of UTC denotes (DateTime<FixedOffset> into DateTime<Utc>); the
\* second 60 of a leap second stays the second 60
into_utc(y, m, d, hh, mm, ss, ns, east) ==
    LET second_of_day == hh * 3600 + mm * 60 + (IF ss = 60 THEN 59 ELSE ss) - east
        date == civil_from_days(days_from_civil(y, m, d) + second_of_day \div 86400)
        rest == second_of_day % 86400
    IN  DateTime(date.year, date.month, date.day, rest \div 3600, (rest % 3600) \div 60,
                 IF ss = 60 THEN 60 ELSE rest % 60, ns)

\* the local date and time in UTC when the calendar holds it, else the
\* error none
in_calendar(y, m, d, hh, mm, ss, ns, east, none) ==
    let(into_utc(y, m, d, hh, mm, ss, ns, east), LAMBDA utc :
        IF utc.year \in Years THEN Ok(utc) ELSE Err(none))

\* format::parse::parse_rfc3339 behind DateTime::parse_from_rfc3339, then
\* into(): the instant in UTC, or the text of the ParseError.  The first
\* nineteen characters are read at fixed positions
parse_from_rfc3339(s) ==
    IF Len(s) < 19 THEN Err(TooShort)
    ELSE IF \E i \in {1, 2, 3, 4, 6, 7, 9, 10} : ~IsDigit(s[i]) THEN Err(Invalid)
    ELSE IF s[5] # "-" \/ s[8] # "-" THEN Err(Invalid)
    ELSE IF ~from_ymd_opt(decimal(SubSeq(s, 1, 4)), decimal(SubSeq(s, 6, 7)),
                          decimal(SubSeq(s, 9, 10)))
         THEN Err(OutOfRange)
    ELSE IF s[11] \notin {"T", "t", " "} THEN Err(Invalid)
    ELSE IF \E i \in {12, 13, 15, 16, 18, 19} : ~IsDigit(s[i]) THEN Err(Invalid)
    ELSE IF s[14] # ":" \/ s[17] # ":" THEN Err(Invalid)
    ELSE and_then(IF Len(s) >= 20 /\ s[20] = "." THEN nanosecond(drop(s, 20))
                  ELSE scanned(drop(s, 19), 0),
                  LAMBDA nano :
             IF decimal(SubSeq(s, 12, 13)) > 23 \/ decimal(SubSeq(s, 15, 16)) > 59
                    \/ decimal(SubSeq(s, 18, 19)) > 60
             THEN Err(OutOfRange)
             ELSE and_then(timezone_offset(nano.rest, FALSE), LAMBDA offset :
                      IF offset.v > (23 * 60 + 59) * 60 \/ offset.v < 0 - (23 * 60 + 59) * 60
                      THEN Err(OutOfRange)
                      ELSE IF offset.rest # <<>> THEN Err(TooLong)
                      ELSE in_calendar(decimal(SubSeq(s, 1, 4)), decimal(SubSeq(s, 6, 7)),
                                       decimal(SubSeq(s, 9, 10)), decimal(SubSeq(s, 12, 13)),
                                       decimal(SubSeq(s, 15, 16)), decimal(SubSeq(s, 18, 19)),
                                       nano.v, offset.v, OutOfRange)))

\* i32::try_from of the number with the digits ds, negated when negative
to_i32(ds, negative) ==
    let(drop(ds, span(ds, {"0"}, Len(ds))), LAMBDA sig :
        IF Len(sig) <= 9 THEN Ok((IF negative THEN -1 ELSE 1) * decimal(sig))
        ELSE IF Len(sig) > 10 THEN Err(OutOfRange)
        ELSE let(decimal(SubSeq(sig, 1, 9)), LAMBDA high :
                 IF high < 214748364
                        \/ (high = 214748364
                               /\ DigitOf(sig[10]) <= (IF negative THEN 8 ELSE 7))
                 THEN Ok(IF negative THEN (0 - high) * 10 - DigitOf(sig[10])
                         ELSE high * 10 + DigitOf(sig[10]))
                 ELSE Err(OutOfRange)))

\* Item::Numeric(Year): blanks, then a sign and any number of digits, or
\* one to four digits; Parsed::set_year
numeric_year(s) ==
    let(trim_start(s), LAMBDA t :
        IF t # <<>> /\ Head(t) \in {"-", "+"}
        THEN and_then(number(Tail(t), 1, Len(t)), LAMBDA n :
                 and_then(to_i32(n.v, Head(t) = "-"), LAMBDA year : scanned(n.rest, year)))
        ELSE and_then(number(t, 1, 4), LAMBDA n : scanned(n.rest, decimal(n.v))))

\* Item::Numeric of a field of two digits: blanks, then one or two digits;
\* the setter of Parsed takes the values lo..hi
numeric(s, lo, hi) ==
    and_then(number(trim_start(s), 1, 2), LAMBDA n :
        IF decimal(n.v) \in lo..hi THEN scanned(n.rest, decimal(n.v)) ELSE Err(OutOfRange))

\* Item::Space(""), Item::Literal(c)
literal(s, c) == char(trim_start(s), c)

\* the character between the date and the time
separator(s) ==
    IF s = <<>> THEN Err(TooShort)
    ELSE IF Head(s) \notin {"T", "t", " "} THEN Err(Invalid)
    ELSE scanned(Tail(s), Head(s))

\* Item::Fixed(Fixed::Nanosecond): the fraction of the second, if any
fixed_nanosecond(s) ==
    IF s # <<>> /\ Head(s) = "." THEN nanosecond(Tail(s)) ELSE scanned(s, 0)

\* the zone of the relaxed syntax: UTC in any case, or an offset
relaxed_offset(s) ==
    IF Len(s) >= 3 /\ to_lowercase(SubSeq(s, 1, 3)) = <<"u", "t", "c">>
    THEN scanned(drop(s, 3), 0)
    ELSE timezone_offset(s, TRUE)

\* format::parse::parse_rfc3339_relaxed: the fields of the date and time
\* and the rest of the input
parse_rfc3339_relaxed(s) ==
    and_then(numeric_year(s), LAMBDA year :
    and_then(literal(year.rest, "-"), LAMBDA dash1 :
    and_then(numeric(dash1.rest, 1, 12), LAMBDA month :
    and_then(literal(month.rest, "-"), LAMBDA dash2 :
    and_then(numeric(dash2.rest, 1, 31), LAMBDA day :
    and_then(separator(day.rest), LAMBDA sep :
    and_then(numeric(sep.rest, 0, 23), LAMBDA hour :
    and_then(literal(hour.rest, ":"), LAMBDA colon1 :
    and_then(numeric(colon1.rest, 0, 59), LAMBDA minute :
    and_then(literal(minute.rest, ":"), LAMBDA colon2 :
    and_then(numeric(colon2.rest, 0, 60), LAMBDA second :
    and_then(fixed_nanosecond(second.rest), LAMBDA nano :
    and_then(relaxed_offset(trim_start(nano.rest)), LAMBDA offset :
        scanned(offset.rest,
                [year |-> year.v, month |-> month.v, day |-> day.v, hour |-> hour.v,
                 minute |-> minute.v, second |-> second.v, nanosecond |-> nano.v,
                 offset |-> offset.v]))))))))))))))

\* Parsed::to_datetime, then with_timezone(&Utc)
to_datetime(p) ==
    IF ~from_ymd_opt(p.year, p.month, p.day) THEN Err(OutOfRange)
    ELSE IF p.offset >= 86400 \/ p.offset <= -86400 THEN Err(OutOfRange)
    ELSE in_calendar(p.year, p.month, p.day, p.hour, p.minute, p.second, p.nanosecond,
                     p.offset, Impossible)

\* impl FromStr for DateTime<FixedOffset>, the parser behind chrono's
\* Deserialize for DateTime<Utc>: the instant in UTC, or the text of the
\* ParseError
date_time_from_str(s) ==
    and_then(parse_rfc3339_relaxed(s), LAMBDA r :
        IF trim_start(r.rest) # <<>> THEN Err(TooLong) ELSE to_datetime(r.v))

\* the message of request/query.rs (without the quoting of the two examples)
CannotParse ==
    "Cannot parse TableVersionQuery. The string must be either latest or a timestamp in "
        \o "ISO8601 format like 2021-08-01T00:00:00Z."

\* the characters of "latest"
LatestText == <<"l", "a", "t", "e", "s", "t">>

\* impl FromStr for TableVersionQuery of request/query.rs
from_str(s) ==
    IF to_lowercase(s) = LatestText THEN Ok(Latest)
    ELSE LET ts == parse_from_rfc3339(s)
         IN  IF ts.ok THEN Ok(Timestamp(ts.val)) ELSE Err(request(CannotParse))

\* impl FromStr for TableVersionQuery of client.rs
client_from_str(s) ==
    IF s = LatestText THEN Ok(Latest)
    ELSE LET ts == parse_from_rfc3339(s)
         IN  IF ts.ok THEN Ok(Timestamp(ts.val))
             ELSE Err(internal("failed to parse timestamp: " \o ts.err))

\* impl Default for TableVersionQuery, the same in both files
default_version == Latest

\* the local dates, times and zones the strings of the model are made of
Date(year, month, day, chars) == [year |-> year, month |-> month, day |-> day, text |-> chars]
Time(hour, minute, second, nanos, chars) ==
    [hour |-> hour, minute |-> minute, second |-> second, nanosecond |-> nanos,
     text |-> chars]
Zone(east, chars) == [east |-> east, text |-> chars]

ValidDates ==
    { Date(2021, 8, 1, <<"2", "0", "2", "1", "-", "0", "8", "-", "0", "1">>),
      Date(1999, 12, 31, <<"1", "9", "9", "9", "-", "1", "2", "-", "3", "1">>),
      Date(2020, 2, 29, <<"2", "0", "2", "0", "-", "0", "2", "-", "2", "9">>) }
ValidTimes ==
    { Time(0, 0, 0, 0, <<"T", "0", "0", ":", "0", "0", ":", "0", "0">>),
      Time(23, 59, 59, 0, <<"T", "2", "3", ":", "5", "9", ":", "5", "9">>),
      Time(0, 30, 0, 500000000, <<"T", "0", "0", ":", "3", "0", ":", "0", "0", ".", "5">>) }
ValidZones ==
    { Zone(0, <<"Z">>), Zone(120, <<"+", "0", "2", ":", "0", "0">>), Zone(-330, <<"-", "0", "5", ":", "3", "0">>) }

\* a valid RFC3339 timestamp, by its parts
Stamps == [date : ValidDates, time : ValidTimes, zone : ValidZones]
TextOf(stamp) == stamp.date.text \o stamp.time.text \o stamp.zone.text

\* strings that are neither "latest" nor a valid RFC3339 timestamp; each
\* timestamp among them has one fault
OtherStrings ==
    { <<"L", "A", "T", "E", "S", "T">>,
      <<"L", "a", "t", "e", "s", "t">>,
      <<"n", "o", "n", "s", "e", "n", "s", "e">>,
      <<>>,
      <<"l", "a", "t", "e", "s", "t", " ">>,
      <<"2", "0", "2", "1", "-", "0", "8", "-", "0", "1">>,
      <<"2", "0", "2", "1", "-", "0", "8", "-", "0", "1", "T", "0", "0", ":", "0", "0", ":", "0", "0">>,
      <<"2", "0", "2", "1", "-", "0", "8", "-", "0", "1", "T", "0", "0", ":", "0", "0", ":", "0", "0", "Z", "x">>,
      <<"2", "0", "2", "1", "-", "0", "2", "-", "2", "9", "T", "0", "0", ":", "0", "0", ":", "0", "0", "Z">>,
      <<"2", "0", "2", "1", "-", "1", "3", "-", "0", "1", "T", "0", "0", ":", "0", "0", ":", "0", "0", "Z">>,
      <<"2", "0", "2", "1", "-", "0", "8", "-", "0", "1", "T", "2", "4", ":", "0", "0", ":", "0", "0", "Z">>,
      <<"2", "0", "2", "1", "/", "0", "8", "/", "0", "1", "T", "0", "0", ":", "0", "0", ":", "0", "0", "Z">>,
      <<"1", "6", "2", "7", "7", "7", "6", "0", "0", "0">> }

QueryStrings == {LatestText} \cup {TextOf(stamp) : stamp \in Stamps} \cup OtherStrings

\* str.parse::<TableVersionQuery>() with the type of request/query.rs
FromStr ==
    /\ pc = "HasString"
    /\ parsed' = Some(from_str(unwrap(str)))
    /\ pc' = "Parsed"
    /\ UNCHANGED <<clientVars, pagination, driverVars, cursorVars, classifyVars, tokenVars,
                   renderVars, str, errorVars, urlVars, callsVars, loaderVars>>

\* str.parse::<TableVersionQuery>() with the type of client.rs
ClientFromStr ==
    /\ pc = "HasString"
    /\ parsed' = Some(client_from_str(unwrap(str)))
    /\ pc' = "ClientParsed"
    /\ UNCHANGED <<clientVars, pagination, driverVars, cursorVars, classifyVars, tokenVars,
                   renderVars, str, errorVars, urlVars, callsVars, loaderVars>>

\* TableVersionQuery::default()
Default ==
    /\ pc = "HasString"
    /\ parsed' = Some(Ok(default_version))
    /\ pc' = "Defaulted"
    /\ UNCHANGED <<clientVars, pagination, driverVars, cursorVars, classifyVars, tokenVars,
                   renderVars, str, errorVars, urlVars, callsVars, loaderVars>>

InitQuery ==
    /\ pc = "HasString"
    /\ endpoint = DeltaSharingIo
    /\ bearer = BearerToken("tokA", None)
    /\ now = 0
    /\ pagination = default
    /\ str \in {Some(s) : s \in QueryStrings}
    /\ parsed = None
    /\ IdleDriver /\ IdleCursor /\ IdleClassify /\ IdleToken /\ IdleRender /\ IdleError
    /\ IdleUrl /\ IdleCalls /\ IdleLoader

NextQuery == FromStr \/ ClientFromStr \/ Default

SpecQuery == InitQuery /\ [][NextQuery]_vars

----------------------------------------------------------------------------
(* Profiles.  A profile is built by try_from_path from a profile file, or  *)
(* by from_profile_type and new_bearer_token from values.  A file is       *)
(* missing, or holds one of three texts that are no JSON value            *)
(* (Fragments), or holds a JSON object given by the value of each key of   *)
(* ProfileFile (None when the key is missing) and by the order its keys    *)
(* stand in (keys); the version is an integer, the other values are        *)
(* strings.  The text of an endpoint and of an expiration time is the      *)
(* sequence of its characters.  The characters of an endpoint are letters, *)
(* digits and : / ? # = & % + - . _ and its percent-escapes are those of   *)
(* HexPairs; no label of a host begins with xn--.  The characters of an    *)
(* expiration time are the printable ones of ASCII, the tab, the line      *)
(* feed, the form feed and the carriage return.                            *)

Profile(share_credentials_version, endpoint_url, profile_type) ==
    [share_credentials_version |-> share_credentials_version,
     endpoint |-> endpoint_url, profile_type |-> profile_type]

\* the schemes the URL parser calls special, and the port each of them
\* implies
SpecialSchemes == {"http", "https", "ws", "wss", "ftp", "file"}
default_port(scheme) ==
    CASE scheme \in {"http", "ws"} -> Some(80)
      [] scheme \in {"https", "wss"} -> Some(443)
      [] scheme = "ftp" -> Some(21)
      [] OTHER -> None

\* Display for url::ParseError
EmptyHost == "empty host"
InvalidPort == "invalid port number"
InvalidIpv4Address == "invalid IPv4 address"
InvalidDomainCharacter == "invalid domain character"
IdnaError == "invalid international domain name"
RelativeUrlWithoutBase == "relative URL without a base"

is_scheme_char(c) == IsAlpha(c) \/ IsDigit(c) \/ c \in {"+", "-", "."}

\* Parser::parse_scheme: the length of the scheme a ":" follows, 0 when the
\* text does not begin with a scheme
scheme_end(cs) ==
    IF cs = <<>> \/ ~IsAlpha(cs[1]) THEN 0
    ELSE LET i == CHOOSE k \in 1..(Len(cs) + 1) :
                      /\ k > Len(cs) \/ ~is_scheme_char(cs[k])
                      /\ \A j \in 1..(k - 1) : is_scheme_char(cs[j])
         IN  IF i <= Len(cs) /\ cs[i] = ":" THEN i - 1 ELSE 0

RECURSIVE escapes(_)
\* the tokens of a text given by its characters: the two hex digits of a
\* percent-escape become one token
escapes(cs) ==
    let(cs, LAMBDA t :
        IF t = <<>> THEN <<>>
        ELSE IF Head(t) = "%" /\ Len(t) >= 3 /\ (t[2] \o t[3]) \in HexPairs
             THEN <<"%", t[2] \o t[3]>> \o escapes(SubSeq(t, 4, Len(t)))
        ELSE <<Head(t)>> \o escapes(Tail(t)))

RECURSIVE percent_decode(_)
\* percent_decode: the characters the tokens stand for
percent_decode(ts) ==
    let(ts, LAMBDA t :
        IF t = <<>> THEN <<>>
        ELSE IF Head(t) = "%" /\ Len(t) >= 2 /\ t[2] \in HexPairs
             THEN <<from_hex(t[2])>> \o percent_decode(SubSeq(t, 3, Len(t)))
        ELSE <<Head(t)>> \o percent_decode(Tail(t)))

RECURSIVE from_str_radix(_, _, _)
\* u32::from_str_radix on digits of the radix r, from the number acc on: the
\* four octets of the number, None when it does not fit in a u32
from_str_radix(cs, r, acc) ==
    let(acc, LAMBDA a :
        IF cs = <<>> THEN Some(a)
        ELSE LET x4 == a[4] * r + hex_value(Head(cs))
                 x3 == a[3] * r + x4 \div 256
                 x2 == a[2] * r + x3 \div 256
                 x1 == a[1] * r + x2 \div 256
             IN  IF x1 > 255 THEN None
                 ELSE from_str_radix(Tail(cs), r, <<x1, x2 % 256, x3 % 256, x4 % 256>>))

\* parse_ipv4number of host.rs: Err when the part is no number, Ok(None)
\* when the number does not fit in a u32
parse_ipv4number(cs) ==
    IF cs = <<>> THEN Err("()")
    ELSE LET hex == Len(cs) >= 2 /\ cs[1] = "0" /\ cs[2] \in {"x", "X"}
             octal == ~hex /\ Len(cs) >= 2 /\ cs[1] = "0"
             r == IF hex THEN 16 ELSE IF octal THEN 8 ELSE 10
             digits == IF hex THEN SubSeq(cs, 3, Len(cs)) ELSE IF octal THEN Tail(cs) ELSE cs
             valid(c) == IF hex THEN is_ascii_hexdigit(c)
                         ELSE IF octal THEN IsDigit(c) /\ DigitOf(c) < 8
                         ELSE IsDigit(c)
         IN  IF digits = <<>> THEN Ok(Some(<<0, 0, 0, 0>>))
             ELSE IF \E i \in 1..Len(digits) : ~valid(digits[i]) THEN Err("()")
             ELSE Ok(from_str_radix(digits, r, <<0, 0, 0, 0>>))

\* ends_in_a_number of host.rs
ends_in_a_number(domain) ==
    let(Split(domain, "."), LAMBDA parts :
        LET last == IF parts[Len(parts)] = <<>> /\ Len(parts) > 1
                    THEN parts[Len(parts) - 1] ELSE parts[Len(parts)]
        IN  \/ last # <<>> /\ \A i \in 1..Len(last) : IsDigit(last[i])
            \/ parse_ipv4number(last).ok)

\* parse_ipv4addr of host.rs: the address in dotted decimal
parse_ipv4addr(domain) ==
    let(Split(domain, "."), LAMBDA all :
        let(IF all[Len(all)] = <<>> THEN SubSeq(all, 1, Len(all) - 1) ELSE all, LAMBDA parts :
            IF Len(parts) > 4 THEN Err(InvalidIpv4Address)
            ELSE IF \E i \in 1..Len(parts) :
                        ~parse_ipv4number(parts[i]).ok \/ parse_ipv4number(parts[i]).val = None
                 THEN Err(InvalidIpv4Address)
            ELSE LET n == Len(parts)
                     numbers == [i \in 1..n |-> unwrap(parse_ipv4number(parts[i]).val)]
                     ipv4 == numbers[n]
                 IN  IF \E j \in 1..(n - 1) : ipv4[j] # 0 THEN Err(InvalidIpv4Address)
                     ELSE IF \E i \in 1..(n - 1) : \E j \in 1..3 : numbers[i][j] # 0
                          THEN Err(InvalidIpv4Address)
                     ELSE Ok(Ipv4(Join([j \in 1..4 |->
                                           to_string(IF j < n THEN numbers[j][4] ELSE ipv4[j])],
                                       ".")))))

\* idna::AsciiDenyList::URL: the printable characters no domain may hold
ForbiddenDomainChars ==
    {" ", "#", "%", "/", ":", "<", ">", "?", "@", "[", "\\", "]", "^", "|"}

\* Host::parse: the host of a URL with a special scheme is decoded and taken
\* through idna::domain_to_ascii_from_cow, which lower-cases it and refuses
\* the characters of the deny list; it is an IPv4 address when its last
\* label is a number
host_parse(cs) ==
    let(to_lowercase(percent_decode(escapes(cs))), LAMBDA domain :
        IF \E i \in 1..Len(domain) : domain[i] \in ForbiddenDomainChars
        THEN Err(IdnaError)
        ELSE IF domain = <<>> THEN Err(EmptyHost)
        ELSE IF ends_in_a_number(domain) THEN parse_ipv4addr(domain)
        ELSE Ok(Domain(Concat(domain))))

\* is_invalid_host_char: the printable characters no opaque host may hold
InvalidHostChars ==
    {" ", "#", "/", ":", "<", ">", "?", "@", "[", "\\", "]", "^", "|"}

\* Host::parse_opaque: the host of any other URL is kept as it is written
parse_opaque(cs) ==
    IF \E i \in 1..Len(cs) : cs[i] \in InvalidHostChars
    THEN Err(InvalidDomainCharacter)
    ELSE Ok(Domain(Concat(cs)))

RECURSIVE port_value(_, _)
\* the number the digits denote, 65536 for every number over u16::MAX
port_value(cs, acc) ==
    let(acc, LAMBDA a :
        IF cs = <<>> THEN a
        ELSE IF a * 10 + DigitOf(Head(cs)) > 65535 THEN 65536
        ELSE port_value(Tail(cs), a * 10 + DigitOf(Head(cs))))

\* Parser::parse_port on what follows the ":" of the authority: the port,
\* None when no digit is given or the port is the one the scheme implies,
\* and what is left of the text
parse_port(scheme, cs) ==
    LET n == CHOOSE k \in 0..Len(cs) :
                 /\ \A j \in 1..k : IsDigit(cs[j])
                 /\ k = Len(cs) \/ ~IsDigit(cs[k + 1])
        port == port_value(SubSeq(cs, 1, n), 0)
    IN  IF port > 65535 THEN Err(InvalidPort)
        ELSE IF n < Len(cs) /\ cs[n + 1] \notin {"/", "?", "#"} THEN Err(InvalidPort)
        ELSE Ok([port |-> IF n = 0 \/ Some(port) = default_port(scheme) THEN None
                          ELSE Some(port),
                 remaining |-> SubSeq(cs, n + 1, Len(cs))])

\* the pieces of the path that begins the text cs: what stands between
\* the / characters up to the first ? or #
path_pieces(cs) == Split(SubSeq(cs, 1, find(cs, {"?", "#"}) - 1), "/")

\* the URL of a scheme, a host, a port and a path, with the query and the
\* fragment of what follows the path in cs
with_query_and_fragment(cannot_be_a_base, scheme, host, port, path, cs) ==
    let(parse_query_and_fragment(escapes(SubSeq(cs, find(cs, {"?", "#"}), Len(cs)))),
        LAMBDA rest :
            [cannot_be_a_base |-> cannot_be_a_base, scheme |-> scheme, host |-> host,
             port |-> port, path |-> path, query |-> rest.query, fragment |-> rest.fragment])

\* Parser::parse_path_start after an authority: the path that begins with
\* a /; without one a special URL has the path "/" and any other URL
\* the empty path
parse_path_start(scheme, cs) ==
    IF cs # <<>> /\ Head(cs) = "/"
    THEN segments(path_of(scheme, <<>>, path_pieces(Tail(cs))))
    ELSE IF scheme \in SpecialSchemes THEN <<"">> ELSE <<>>

\* Parser::after_double_slash: host, port, path, query and fragment
after_double_slash(scheme, cs) ==
    LET special == scheme \in SpecialSchemes
        host_end == find(cs, {":", "/", "?", "#"})
        host_str == SubSeq(cs, 1, host_end - 1)
        remaining == SubSeq(cs, host_end, Len(cs))
        host == IF special THEN host_parse(host_str) ELSE parse_opaque(host_str)
        colon == remaining # <<>> /\ Head(remaining) = ":"
        port == IF colon THEN parse_port(scheme, Tail(remaining))
                ELSE Ok([port |-> None, remaining |-> remaining])
    IN  IF special /\ host_str = <<>> THEN Err(EmptyHost)
        ELSE IF ~host.ok THEN host
        ELSE IF host_str = <<>> /\ colon THEN Err(EmptyHost)
        ELSE IF ~port.ok THEN port
        ELSE Ok(with_query_and_fragment(
                    FALSE, scheme, IF host_str = <<>> THEN None ELSE Some(host.val),
                    port.val.port, parse_path_start(scheme, port.val.remaining),
                    port.val.remaining))

\* Parser::parse_non_special: an authority after "//", a path after "/",
\* and otherwise a URL that cannot be a base, whose path is one text
parse_non_special(scheme, cs) ==
    IF Len(cs) >= 2 /\ cs[1] = "/" /\ cs[2] = "/"
    THEN after_double_slash(scheme, SubSeq(cs, 3, Len(cs)))
    ELSE IF cs # <<>> /\ Head(cs) = "/"
    THEN Ok(with_query_and_fragment(
                FALSE, scheme, None, None,
                segments(path_of(scheme, <<>>, path_pieces(Tail(cs)))), cs))
    ELSE Ok(with_query_and_fragment(
                TRUE, scheme, None, None,
                <<Concat(SubSeq(cs, 1, find(cs, {"?", "#"}) - 1))>>, cs))

\* the file URL of a host and of the pieces of its path: a drive letter
\* where the first segment stands takes the host away
file_url(host, pieces, cs) ==
    with_query_and_fragment(
        FALSE, "file",
        IF drive_letter_first(<<>>, pieces) THEN None ELSE host,
        None, segments(path_of("file", <<>>, pieces)), cs)

\* Parser::parse_file without a base: after "//" comes a host, which may be
\* empty, is none when it is localhost and is part of the path when it is
\* a drive letter.  The path of a URL without a host is read from its "/"
\* on, after the "/" that begins every path; parse_path_start reads the
\* path of a URL with a host from behind its "/"
parse_file(cs) ==
    IF Len(cs) >= 2 /\ cs[1] = "/" /\ cs[2] = "/"
    THEN LET input == SubSeq(cs, 3, Len(cs))
             host_end == find(input, {"/", "?", "#"})
             host_str == SubSeq(input, 1, host_end - 1)
             remaining == SubSeq(input, host_end, Len(input))
             host == host_parse(host_str)
             behind == IF remaining # <<>> /\ Head(remaining) = "/"
                       THEN path_pieces(Tail(remaining)) ELSE << <<>> >>
         IN  IF is_windows_drive_letter(host_str) THEN Ok(file_url(None, path_pieces(input), input))
             ELSE IF host_str = <<>> THEN Ok(file_url(None, path_pieces(remaining), remaining))
             ELSE IF ~host.ok THEN host
             ELSE IF host.val = Domain("localhost")
             THEN Ok(file_url(None, path_pieces(remaining), remaining))
             ELSE Ok(file_url(Some(host.val), behind, remaining))
    ELSE IF cs # <<>> /\ Head(cs) = "/" THEN Ok(file_url(None, path_pieces(Tail(cs)), cs))
    ELSE Ok(file_url(None, path_pieces(cs), cs))

\* the number of / characters the text begins with
leading_slashes(cs) ==
    CHOOSE k \in 0..Len(cs) :
        /\ \A j \in 1..k : cs[j] = "/"
        /\ k = Len(cs) \/ cs[k + 1] # "/"

\* Url::parse on the text of an absolute or relative URL: the scheme is
\* lower-cased; a special scheme takes an authority after any number of
\* slashes
parse(cs) ==
    let(scheme_end(cs), LAMBDA n :
        IF n = 0 THEN Err(RelativeUrlWithoutBase)
        ELSE let(Concat(to_lowercase(SubSeq(cs, 1, n))), LAMBDA scheme :
                 let(SubSeq(cs, n + 2, Len(cs)), LAMBDA input :
                     IF scheme = "file" THEN parse_file(input)
                     ELSE IF scheme \in SpecialSchemes
                          THEN after_double_slash(
                                   scheme, SubSeq(input, leading_slashes(input) + 1, Len(input)))
                     ELSE parse_non_special(scheme, input))))

\* File::open
open(path, file) ==
    IF file.exists THEN Ok(file)
    ELSE Err(profile("Failed to open profile file at " \o path
                     \o ": No such file or directory (os error 2)"))

\* <DateTime<Utc> as Deserialize>: the string is parsed as a date and time
\* with an offset and taken to UTC
deserialize_date_time(s) == date_time_from_str(s)

\* the value of the key expirationTime, None when the key is missing
deserialize_expiration_time(file) ==
    IF file.expirationTime = None THEN Ok(None)
    ELSE map(deserialize_date_time(unwrap(file.expirationTime)), Some)

\* what the visitor of ProfileFile objects to in the value of a key of the
\* file, None when the value fits the field
value_error(file, key) ==
    IF key = "shareCredentialsVersion" /\ unwrap(file.shareCredentialsVersion) < 0
    THEN Some("invalid value: integer -"
              \o to_string(0 - unwrap(file.shareCredentialsVersion)) \o ", expected u32")
    ELSE IF key = "expirationTime"
         THEN let(deserialize_expiration_time(file), LAMBDA expiration_time :
                  IF expiration_time.ok THEN None ELSE Some(expiration_time.err))
    ELSE None

\* what serde_json::from_reader::<_, ProfileFile> objects to, None when the
\* file deserializes (the position in the file and the quoting of names
\* and values are left out of the text).  The keys are visited in the
\* order of the file and a value that does not fit its field is reported
\* where it stands; the missing fields are looked for at the end of the
\* object, in the order of the struct
serde_error(file) ==
    IF file.syntax = "Empty" THEN Some("EOF while parsing a value")
    ELSE IF file.syntax = "OpenObject" THEN Some("EOF while parsing an object")
    ELSE IF file.syntax = "NoValue" THEN Some("expected value")
    ELSE let([i \in 1..Len(file.keys) |-> value_error(file, file.keys[i])], LAMBDA errors :
             IF \E i \in 1..Len(errors) : is_some(errors[i])
             THEN errors[CHOOSE i \in 1..Len(errors) :
                             is_some(errors[i]) /\ \A j \in 1..(i - 1) : errors[j] = None]
             ELSE IF file.shareCredentialsVersion = None
                  THEN Some("missing field shareCredentialsVersion")
             ELSE IF file.endpoint = None THEN Some("missing field endpoint")
             ELSE None)

\* serde_json::from_reader::<_, ProfileFile>
from_reader(path, file) ==
    let(serde_error(file), LAMBDA e :
        IF is_some(e)
        THEN Err(profile("Failed to parse profile file at " \o path \o ": " \o unwrap(e)))
        ELSE Ok([share_credentials_version |-> unwrap(file.shareCredentialsVersion),
                 endpoint |-> unwrap(file.endpoint),
                 bearer_token |-> file.bearerToken,
                 expiration_time |-> deserialize_expiration_time(file).val]))

\* ProfileType::new_bearer_token
new_bearer_token_type(token, expiration_time) == BearerToken(token, expiration_time)

\* Profile::from_profile_type
from_profile_type(share_credentials_version, endpoint_url, profile_type) ==
    Profile(share_credentials_version, endpoint_url, profile_type)

\* a faulty try_from_path that takes a missing bearer token for an empty one
try_from_path_no_token(path, file) ==
    IF ~open(path, file).ok THEN open(path, file)
    ELSE and_then(from_reader(path, file), LAMBDA profile_file :
             let(parse(profile_file.endpoint), LAMBDA endpoint_url :
                 IF ~endpoint_url.ok
                 THEN Err(profile("Failed to parse endpoint URL in profile: "
                                  \o endpoint_url.err))
                 ELSE Ok(from_profile_type(
                             profile_file.share_credentials_version, endpoint_url.val,
                             new_bearer_token_type(
                                 IF is_some(profile_file.bearer_token)
                                 THEN unwrap(profile_file.bearer_token) ELSE "",
                                 profile_file.expiration_time)))))

\* the rest of Profile::try_from_path once the endpoint is parsed
from_profile_file(profile_file, endpoint_url) ==
    IF ~endpoint_url.ok
    THEN Err(profile("Failed to parse endpoint URL in profile: " \o endpoint_url.err))
    ELSE IF profile_file.share_credentials_version = 1
         THEN IF is_some(profile_file.bearer_token)
              THEN Ok(from_profile_type(
                          profile_file.share_credentials_version, endpoint_url.val,
                          new_bearer_token_type(unwrap(profile_file.bearer_token),
                                                profile_file.expiration_time)))
              ELSE Err(profile("Bearer token is missing in profile file"))
    ELSE Err(profile("Unsupported share credentials version: "
                     \o to_string(profile_file.share_credentials_version)))

\* Profile::try_from_path
try_from_path(path, file) ==
    IF ~open(path, file).ok THEN open(path, file)
    ELSE and_then(from_reader(path, file), LAMBDA profile_file :
             from_profile_file(profile_file, parse(profile_file.endpoint)))

\* Debug for url::ParseError: the name of the variant
debug_parse_error(e) ==
    CASE e = RelativeUrlWithoutBase -> "RelativeUrlWithoutBase"
      [] e = EmptyHost -> "EmptyHost"
      [] e = InvalidPort -> "InvalidPort"
      [] e = InvalidIpv4Address -> "InvalidIpv4Address"
      [] e = InvalidDomainCharacter -> "InvalidDomainCharacter"
      [] e = IdnaError -> "IdnaError"

\* Profile::new_bearer_token: Url::parse(..).unwrap() panics on an error
\* with the Debug of the error
new_bearer_token(version, endpoint_text, bearer_token, expiration_time) ==
    let(parse(endpoint_text), LAMBDA endpoint_url :
        IF ~endpoint_url.ok
        THEN [panic |-> "called Result::unwrap() on an Err value: "
                            \o debug_parse_error(endpoint_url.err)]
        ELSE Ok(Profile(version, endpoint_url.val,
                        new_bearer_token_type(bearer_token, expiration_time))))

----------------------------------------------------------------------------
(* Debug renderings of the values that hold the token, and the tracing     *)
(* events try_from_path emits.  An event is its level, its message and its *)
(* fields in order, each field rendered as the macro asks (? is Debug, %   *)
(* is Display).                                                            *)

\* char::escape_debug on a character of a str: the quotation mark, the
\* backslash and the control characters of the texts are escaped
escape_debug(c) ==
    CASE c = "\"" -> "\\\""
      [] c = "\\" -> "\\\\"
      [] c = "\t" -> "\\t"
      [] c = "\n" -> "\\n"
      [] c = "\r" -> "\\r"
      [] c = "\f" -> "\\u{c}"
      [] OTHER -> c

RECURSIVE escaped(_)
\* the characters of a text, each as Debug writes it
escaped(s) ==
    let(s, LAMBDA t :
        IF t = "" THEN "" ELSE escape_debug(SubSeq(t, 1, 1)) \o escaped(SubSeq(t, 2, Len(t))))

\* Debug for str: the escaped text between quotation marks
debug_str(s) == "\"" \o escaped(s) \o "\""

\* Debug for Option<String> and Option<&str>
debug_option_str(x) == IF x = None THEN "None" ELSE "Some(" \o debug_str(unwrap(x)) \o ")"

\* Debug for DateTime<Utc>
debug_time(t) ==
    write_year(t.year) \o "-" \o pad(t.month, 2) \o "-" \o pad(t.day, 2) \o "T"
        \o pad(t.hour, 2) \o ":" \o pad(t.minute, 2) \o ":" \o pad(t.second, 2)
        \o fraction(t.nanosecond) \o "Z"

\* Debug for Option<DateTime<Utc>>
debug_option_time(x) == IF x = None THEN "None" ELSE "Some(" \o debug_time(unwrap(x)) \o ")"

\* impl Debug for BearerToken
debug_bearer_token(b) ==
    "BearerTokenFile { token: " \o debug_str("********") \o ", expiration_time: "
        \o debug_option_time(b.expiration_time) \o " }"

\* derived Debug for ProfileType
debug_profile_type(t) == "BearerToken(" \o debug_bearer_token(t) \o ")"

\* Url::path
path_text(url) ==
    IF url.cannot_be_a_base THEN url.path[1]
    ELSE IF url.path = <<>> THEN ""
    ELSE "/" \o Join(url.path, "/")

RECURSIVE pair_texts(_)
pair_texts(pairs) ==
    let(pairs, LAMBDA ps :
        IF ps = <<>> THEN <<>>
        ELSE <<Head(ps).key \o "=" \o Head(ps).value>> \o pair_texts(Tail(ps)))

\* Url::query, on a URL whose query was written as key=value pairs
\* between & characters, without + and without percent-escapes: the text
\* the pairs were read from
query_text(url) ==
    IF url.query = None THEN None ELSE Some(Join(pair_texts(unwrap(url.query)), "&"))

\* Debug for Url
debug_url(url) ==
    "Url { scheme: " \o debug_str(url.scheme)
        \o ", cannot_be_a_base: " \o (IF url.cannot_be_a_base THEN "true" ELSE "false")
        \o ", username: " \o debug_str("") \o ", password: None, host: "
        \o (IF url.host = None THEN "None"
            ELSE IF unwrap(url.host).kind = "Ipv4"
            THEN "Some(Ipv4(" \o unwrap(url.host).name \o "))"
            ELSE "Some(Domain(" \o debug_str(unwrap(url.host).name) \o "))")
        \o ", port: "
        \o (IF url.port = None THEN "None" ELSE "Some(" \o to_string(unwrap(url.port)) \o ")")
        \o ", path: " \o debug_str(path_text(url))
        \o ", query: " \o debug_option_str(query_text(url))
        \o ", fragment: " \o debug_option_str(url.fragment) \o " }"

\* derived Debug for Profile
debug_profile(p) ==
    "Profile { share_credentials_version: " \o to_string(p.share_credentials_version)
        \o ", endpoint: " \o debug_url(p.endpoint)
        \o ", profile_type: " \o debug_profile_type(p.profile_type) \o " }"

\* Debug for reqwest::Client: nothing of the profile is in it
debug_reqwest_client == "Client"

\* derived Debug for DeltaSharingClient
debug_client(p) ==
    "DeltaSharingClient { client: " \o debug_reqwest_client \o ", profile: "
        \o debug_profile(p) \o " }"

\* the values a caller can render with {:?}
DebugValues == {"BearerToken", "ProfileType", "Profile", "DeltaSharingClient"}

\* format!("{:?}", v) for the value v of (the client of) profile p
debug(v, p) ==
    CASE v = "BearerToken" -> debug_bearer_token(p.profile_type)
      [] v = "ProfileType" -> debug_profile_type(p.profile_type)
      [] v = "Profile" -> debug_profile(p)
      [] v = "DeltaSharingClient" -> debug_client(p)

\* derived Debug for ProfileFile
debug_profile_file(f) ==
    "ProfileFile { share_credentials_version: " \o to_string(f.share_credentials_version)
        \o ", endpoint: " \o debug_str(Concat(f.endpoint))
        \o ", bearer_token: " \o debug_option_str(f.bearer_token)
        \o ", expiration_time: " \o debug_option_time(f.expiration_time) \o " }"

event(level, message, fields) == [level |-> level, message |-> message, fields |-> fields]
field(name, value) == [name |-> name, value |-> value]

\* the events of Profile::try_from_path once the file is deserialized
trace_profile_file(profile_file, endpoint_url) ==
    << event("DEBUG", "succesfully loaded profile file", <<>>) >> \o
    (IF ~endpoint_url.ok
     THEN << event("ERROR", "failed to parse endpoint",
                   << field("err", debug_parse_error(endpoint_url.err)),
                      field("endpoint", Concat(profile_file.endpoint)) >>) >>
     ELSE IF profile_file.share_credentials_version = 1
          THEN IF is_some(profile_file.bearer_token)
               THEN <<>>
               ELSE << event("ERROR", "could not parse profile file",
                             << field("file", debug_profile_file(profile_file)) >>) >>
     ELSE << event("ERROR", "unsupported share credentials version",
                   << field("version", to_string(profile_file.share_credentials_version)),
                      field("file", debug_profile_file(profile_file)) >>) >>)

\* the tracing events of Profile::try_from_path, in order
trace(path, file) ==
    IF ~open(path, file).ok
    THEN << event("ERROR", "failed to open profile file",
                  << field("err", "Os { code: 2, kind: NotFound, message: "
                                  \o debug_str("No such file or directory") \o " }") >>) >>
    ELSE let(serde_error(file), LAMBDA e :
             IF is_some(e)
             THEN << event("ERROR", "failed to parse profile file",
                           << field("err", "Error(" \o debug_str(unwrap(e)) \o ")") >>) >>
             ELSE let(from_reader(path, file).val, LAMBDA profile_file :
                      trace_profile_file(profile_file, parse(profile_file.endpoint))))

Versions == {0, 1, 2}

\* the texts of the endpoints of the model, each the sequence of its
\* characters

\* https://sharing.delta.io/delta-sharing/
HttpsText ==
    <<"h", "t", "t", "p", "s", ":", "/", "/", "s", "h", "a", "r", "i", "n",
      "g", ".", "d", "e", "l", "t", "a", ".", "i", "o", "/", "d", "e", "l",
      "t", "a", "-", "s", "h", "a", "r", "i", "n", "g", "/">>

\* mailto:admin
MailtoText ==
    <<"m", "a", "i", "l", "t", "o", ":", "a", "d", "m", "i", "n">>

\* HTTPS://Sharing.Delta.IO/
UpperCaseText ==
    <<"H", "T", "T", "P", "S", ":", "/", "/", "S", "h", "a", "r", "i", "n",
      "g", ".", "D", "e", "l", "t", "a", ".", "I", "O", "/">>

\* https://h:8443/x
PortText ==
    <<"h", "t", "t", "p", "s", ":", "/", "/", "h", ":", "8", "4", "4", "3",
      "/", "x">>

\* https:foo
NoSlashesText ==
    <<"h", "t", "t", "p", "s", ":", "f", "o", "o">>

\* mailto:admin?x=1
MailtoQueryText ==
    <<"m", "a", "i", "l", "t", "o", ":", "a", "d", "m", "i", "n", "?", "x",
      "=", "1">>

\* https://h/a/../b/./c
DotSegmentsText ==
    <<"h", "t", "t", "p", "s", ":", "/", "/", "h", "/", "a", "/", ".", ".",
      "/", "b", "/", ".", "/", "c">>

\* file:///tmp/x
FileText ==
    <<"f", "i", "l", "e", ":", "/", "/", "/", "t", "m", "p", "/", "x">>

\* https://127.0.0.1:443/
Ipv4Text ==
    <<"h", "t", "t", "p", "s", ":", "/", "/", "1", "2", "7", ".", "0", ".",
      "0", ".", "1", ":", "4", "4", "3", "/">>

\* /delta-sharing/
PathText ==
    <<"/", "d", "e", "l", "t", "a", "-", "s", "h", "a", "r", "i", "n", "g",
      "/">>

\* sharing.delta.io
HostText ==
    <<"s", "h", "a", "r", "i", "n", "g", ".", "d", "e", "l", "t", "a", ".",
      "i", "o">>

\* https://
EmptyHostText ==
    <<"h", "t", "t", "p", "s", ":", "/", "/">>

\* https://h:x/
BadPortText ==
    <<"h", "t", "t", "p", "s", ":", "/", "/", "h", ":", "x", "/">>

\* a host that holds an escaped blank
\* https://a%20b/
ForbiddenHostText ==
    <<"h", "t", "t", "p", "s", ":", "/", "/", "a", "%", "2", "0", "b", "/">>

EndpointTexts ==
    { HttpsText, MailtoText, UpperCaseText, PortText,
      NoSlashesText, MailtoQueryText, DotSegmentsText, FileText,
      Ipv4Text, PathText, HostText, EmptyHostText,
      BadPortText, ForbiddenHostText }

\* the texts of the expiration times of the model
\* 2021-11-14T00:12:02Z
ExpirationText ==
    <<"2", "0", "2", "1", "-", "1", "1", "-", "1", "4", "T", "0", "0", ":",
      "1", "2", ":", "0", "2", "Z">>
\* a blank between date and time, a leap second, an offset without colon
\* 2021-11-14 00:12:60+0200
RelaxedText ==
    <<"2", "0", "2", "1", "-", "1", "1", "-", "1", "4", " ", "0", "0", ":",
      "1", "2", ":", "6", "0", "+", "0", "2", "0", "0">>

\* more than nine digits of a second
\* 2021-11-14T00:12:02.1234567891Z
LongFractionText ==
    <<"2", "0", "2", "1", "-", "1", "1", "-", "1", "4", "T", "0", "0", ":",
      "1", "2", ":", "0", "2", ".", "1", "2", "3", "4", "5", "6", "7", "8",
      "9", "1", "Z">>

\* a day the month does not have
\* 2021-02-30T00:12:02Z
NoSuchDayText ==
    <<"2", "0", "2", "1", "-", "0", "2", "-", "3", "0", "T", "0", "0", ":",
      "1", "2", ":", "0", "2", "Z">>

\* white space other than the blank: a tab before the date, a line feed
\* before the offset, a carriage return in it and a line feed behind it
\* 2021-11-14T00:12:02+02:00
WhiteSpaceText ==
    <<"\t", "2", "0", "2", "1", "-", "1", "1", "-", "1", "4", "T", "0", "0", ":",
      "1", "2", ":", "0", "2", "\n", "+", "0", "2", "\r", "0", "0", "\n">>

ExpirationTexts ==
    { ExpirationText, RelaxedText, LongFractionText, WhiteSpaceText, NoSuchDayText,
      <<"t", "o", "m", "o", "r", "r", "o", "w">>,
      <<"2", "0", "2", "1">> }

\* the instant ExpirationText denotes
Expiration == DateTime(2021, 11, 14, 0, 12, 2, 0)

\* the keys of a profile file in the order of the fields of ProfileFile
StructKeys == <<"shareCredentialsVersion", "endpoint", "bearerToken", "expirationTime">>

\* the same keys from the last to the first
ReversedKeys == <<"expirationTime", "bearerToken", "endpoint", "shareCredentialsVersion">>

\* the keys of order that the object holds, in that order
keys_of(object, order) == SelectSeq(order, LAMBDA key : is_some(object[key]))

MissingFile ==
    [exists |-> FALSE, syntax |-> "Empty", keys |-> <<>>, shareCredentialsVersion |-> None,
     endpoint |-> None, bearerToken |-> None, expirationTime |-> None]

\* the files that hold no complete JSON object: nothing at all, an object
\* that is cut off after its brace, a character that begins no JSON value
Fragments ==
    { [MissingFile EXCEPT !.exists = TRUE, !.syntax = k] : k \in {"Empty", "OpenObject", "NoValue"} }

\* the JSON objects of the model by the values of their keys, a key that
\* the object does not hold being None
Objects ==
    { [shareCredentialsVersion |-> v, endpoint |-> e, bearerToken |-> b, expirationTime |-> x] :
        v \in {None, Some(-1)} \cup {Some(n) : n \in Versions},
        e \in {None} \cup {Some(t) : t \in EndpointTexts},
        b \in {None, Some("tokA")},
        x \in {None} \cup {Some(t) : t \in ExpirationTexts} }

\* a file that holds the object with its keys written in the order given
ObjectFile(object, order) ==
    [exists |-> TRUE, syntax |-> "Object", keys |-> keys_of(object, order),
     shareCredentialsVersion |-> object.shareCredentialsVersion,
     endpoint |-> object.endpoint, bearerToken |-> object.bearerToken,
     expirationTime |-> object.expirationTime]

Files ==
    {MissingFile} \cup Fragments \cup
    { ObjectFile(object, order) : object \in Objects, order \in {StructKeys, ReversedKeys} }

Sources ==
    { [ctor |-> "try_from_path", path |-> "profile.json", file |-> f] : f \in Files } \cup
    { [ctor |-> "from_profile_type", version |-> v, endpoint |-> e,
       profile_type |-> new_bearer_token_type("tokA", None)] :
        v \in Versions, e \in Endpoints } \cup
    { [ctor |-> "new_bearer_token", version |-> v, endpoint |-> t, bearer_token |-> "tokA",
       expiration_time |-> x] :
        v \in Versions, t \in EndpointTexts, x \in {None, Some(Expiration)} }

Given == unwrap(source)

TryFromPath ==
    /\ pc = "Idle"
    /\ Given.ctor = "try_from_path"
    /\ made' = Some(try_from_path(Given.path, Given.file))
    /\ logged' = trace(Given.path, Given.file)
    /\ pc' = "Loaded"
    /\ UNCHANGED <<clientVars, pagination, driverVars, cursorVars, classifyVars,
                   tokenVars, shown, queryVars, errorVars, urlVars, callsVars, source>>

FromProfileType ==
    /\ pc = "Idle"
    /\ Given.ctor = "from_profile_type"
    /\ made' = Some(Ok(from_profile_type(Given.version, Given.endpoint, Given.profile_type)))
    /\ pc' = "Loaded"
    /\ UNCHANGED <<clientVars, pagination, driverVars, cursorVars, classifyVars,
                   tokenVars, renderVars, queryVars, errorVars, urlVars, callsVars, source>>

NewBearerToken ==
    /\ pc = "Idle"
    /\ Given.ctor = "new_bearer_token"
    /\ made' = Some(new_bearer_token(Given.version, Given.endpoint, Given.bearer_token,
                                     Given.expiration_time))
    /\ pc' = "Loaded"
    /\ UNCHANGED <<clientVars, pagination, driverVars, cursorVars, classifyVars,
                   tokenVars, renderVars, queryVars, errorVars, urlVars, callsVars, source>>

\* format!("{:?}", v) on a value of the profile that was built
Debug(v) ==
    /\ pc = "Loaded"
    /\ returns(unwrap(made)) /\ unwrap(made).ok
    /\ shown' = Some(Ok(debug(v, unwrap(made).val)))
    /\ pc' = "Debugged"
    /\ UNCHANGED <<clientVars, pagination, driverVars, cursorVars, classifyVars,
                   tokenVars, logged, queryVars, errorVars, urlVars, callsVars, loaderVars>>

InitProfile ==
    /\ pc = "Idle"
    /\ endpoint = DeltaSharingIo
    /\ bearer = BearerToken("tokA", None)
    /\ now = 0
    /\ pagination = default
    /\ source \in {Some(src) : src \in Sources}
    /\ made = None
    /\ IdleDriver /\ IdleCursor /\ IdleClassify /\ IdleToken /\ IdleRender /\ IdleQuery /\ IdleError
    /\ IdleUrl /\ IdleCalls

NextProfile ==
    \/ TryFromPath
    \/ FromProfileType
    \/ NewBearerToken
    \/ \E v \in DebugValues : Debug(v)

SpecProfile == InitProfile /\ [][NextProfile]_vars

----------------------------------------------------------------------------
(* A raw single-page list call on its own: the caller hands in any         *)
(* Pagination by reference and gets the page or the error back.            *)

\* entry of a raw list operation: the request is prepared and sent
RawCall(o) ==
    /\ pc = "Idle"
    /\ op' = o
    /\ pc' = "RawAwaiting"
    /\ requests' = Count(requests)
    /\ sent' = send(sent, prepare(endpoint, bearer, o, args, pagination))
    /\ UNCHANGED <<pagination, items, result, fetched, lastOutcome, yields, wire, reading>>
    /\ UNCHANGED <<clientVars, cursorVars, classifyVars, tokenVars, renderVars, queryVars, errorVars,
                   urlVars, callsVars, loaderVars>>

\* the raw call returns res to its caller
RawReturned(res) ==
    /\ lastOutcome' = Some(res)
    /\ result' = Some(res)
    /\ pc' = IF res.ok THEN "Done" ELSE "Failed"
    /\ UNCHANGED <<op, pagination, items, requests, fetched, yields>>

\* a faulty raw call that sends its request again after a failure
RawRetries(issued, a) ==
    /\ pc = "RawAwaiting"
    /\ IF awaits_json(issued, a)
       THEN /\ pc' = "RawReading"
            /\ reading' = Some(a.response)
            /\ sent' = sent
            /\ UNCHANGED <<op, pagination, items, result, requests, fetched, lastOutcome,
                           yields>>
       ELSE /\ lastOutcome' = Some(answer(issued, op, a))
            /\ sent' = send(sent, issued)
            /\ reading' = None
            /\ UNCHANGED <<pc, op, pagination, items, result, requests, fetched, yields>>
    /\ wire' = IF issued.ok THEN Some(a) ELSE wire
    /\ UNCHANGED <<clientVars, cursorVars, classifyVars, tokenVars, renderVars, queryVars, errorVars,
                   urlVars, callsVars, loaderVars>>

\* request.send() completes with what arrived: the raw call awaits the body
\* of the response or, with nothing to read, returns the error of the
\* preparation, the transport error or the error of the wildcard arm
RawResponds(issued, a) ==
    /\ pc = "RawAwaiting"
    /\ IF awaits_json(issued, a)
       THEN /\ pc' = "RawReading"
            /\ reading' = Some(a.response)
            /\ UNCHANGED <<op, pagination, items, result, requests, fetched, lastOutcome,
                           yields>>
       ELSE /\ RawReturned(answer(issued, op, a))
            /\ reading' = None
    /\ wire' = IF issued.ok THEN Some(a) ELSE wire
    /\ sent' = sent
    /\ UNCHANGED <<clientVars, cursorVars, classifyVars, tokenVars, renderVars, queryVars, errorVars,
                   urlVars, callsVars, loaderVars>>

\* response.json() completes: the raw call returns what handle_response
\* makes of the response
RawReturns ==
    /\ pc = "RawReading"
    /\ \E res \in {handle_response(PayloadOf(op), unwrap(reading))} : RawReturned(res)
    /\ reading' = None
    /\ UNCHANGED <<sent, wire>>
    /\ UNCHANGED <<clientVars, cursorVars, classifyVars, tokenVars, renderVars, queryVars, errorVars,
                   urlVars, callsVars, loaderVars>>

InitRaw ==
    /\ pc = "Idle"
    /\ endpoint \in Endpoints
    /\ bearer = BearerToken("tokA", None)
    /\ now = 0
    /\ pagination \in Cursors
    /\ IdleDriver /\ IdleCursor /\ IdleClassify /\ IdleToken /\ IdleRender /\ IdleQuery /\ IdleError
    /\ IdleUrl /\ IdleCalls /\ IdleLoader

NextRaw ==
    \/ \E o \in ListOps : RawCall(o)
    \/ pc = "RawAwaiting" /\ \E issued \in {prepare(endpoint, bearer, op, args, pagination)} :
           \E a \in Arrivals : RawResponds(issued, a)
    \/ RawReturns

SpecRaw == InitRaw /\ [][NextRaw]_vars

----------------------------------------------------------------------------
(* Properties of the aggregating list operations. *)

\* a page that ends the listing: next_page_token absent or the empty string
Terminal(page) == page.next_page_token \in {None, Some("")}

RECURSIVE Flatten(_)
Flatten(pages) ==
    IF pages = <<>> THEN <<>> ELSE into_iter(Head(pages)) \o Flatten(Tail(pages))

\* every response so far was a page carrying a non-empty next_page_token
TokenOnEveryPage ==
    lastOutcome = None \/ (unwrap(lastOutcome).ok /\ ~Terminal(unwrap(lastOutcome).val))

FailedInternal ==
    pc = "Failed" /\ is_some(result) /\ ~unwrap(result).ok
        /\ unwrap(result).err.kind = "Internal"

\* C4: against a server that returns a non-empty next_page_token on every
\* page, an aggregating list operation eventually stops and returns an error
\* of kind Internal.
C4_IterationCap == ([]TokenOnEveryPage) => <>FailedInternal

\* a call whose most recent raw page call returned an error
LastFetchFailed == is_some(lastOutcome) /\ ~unwrap(lastOutcome).ok

\* C1: when an aggregating list operation returns Ok, the pages it fetched
\* are p1..pn with pn the first page whose token is absent or empty, and the
\* returned sequence is items(p1) ++ ... ++ items(pn), in that order.
C1_OrderedConcatenation ==
    pc = "Done" =>
        /\ Len(fetched) >= 1
        /\ \A k \in 1..Len(fetched) : Terminal(fetched[k]) <=> k = Len(fetched)
        /\ result = Some(Ok(Flatten(fetched)))

C1_Witness ==
    /\ pc = "Done"
    /\ fetched = << [items |-> <<"A", "B">>, next_page_token |-> Some("t1")],
                    [items |-> <<"C">>, next_page_token |-> Some("")] >>
    /\ result = Some(Ok(<<"A", "B", "C">>))

\* C2: once the fetch of a page has ended in an error, the operation has
\* returned exactly that error, which carries none of the accumulated items,
\* and it sends no further page request.
C2_AllOrNothing ==
    /\ [](LastFetchFailed =>
            /\ pc = "Failed"
            /\ result = Some(Err(unwrap(lastOutcome).err))
            /\ requests = Len(fetched) + 1)
    /\ [][LastFetchFailed => requests' = requests /\ result' = result]_vars

C2_Witness ==
    /\ pc = "Failed"
    /\ Len(fetched) = 2
    /\ items # <<>>
    /\ result = Some(Err(parse_response("failed to parse server response")))

\* C3: an aggregating list operation sends at least one page request and none
\* after the first page whose token is absent or empty: if that is page n it
\* has sent exactly n requests when it returns.
C3_StopsAtFirstTerminalPage ==
    /\ pc \in {"Done", "Failed"} => requests >= 1
    /\ \A k \in 1..Len(fetched) :
          Terminal(fetched[k]) =>
              k = Len(fetched) /\ requests = k /\ pc \in {"Accumulating", "Done"}
    /\ pc = "Done" =>
          /\ Terminal(fetched[Len(fetched)])
          /\ requests = Len(fetched)
    /\ (pc = "Done" /\ Len(fetched) = 1) => result = Some(Ok(fetched[1].items))

C3_Witness ==
    /\ pc = "Done"
    /\ fetched = << [items |-> <<>>, next_page_token |-> None] >>
    /\ requests = 1
    /\ result = Some(Ok(<<>>))

\* the fetch of a page is under way: the raw page call awaits the response
\* or the body of the response
Fetching(p) == p \in {"FetchingPage", "ReadingBody"}

\* the transitions of a multi-page operation, with the condition of each;
\* the fetch of a page stays under way while the raw call goes from the
\* await of the response to the await of its body
Transition ==
    \/ pc = "Idle" /\ pc' = "Start"
    \/ pc = "Start" /\ pc' = "FetchingPage"
    \/ pc = "FetchingPage" /\ pc' = "ReadingBody" /\ lastOutcome' = lastOutcome
    \/ Fetching(pc) /\ pc' = "Failed" /\ ~unwrap(lastOutcome').ok
    \/ pc = "ReadingBody" /\ pc' = "Accumulating" /\ unwrap(lastOutcome').ok
    \/ pc = "Accumulating" /\ pc' = "FetchingPage" /\ has_next_page(pagination)
    \/ pc = "Accumulating" /\ pc' = "Done" /\ ~has_next_page(pagination)

\* C5: a multi-page operation only moves Start -> FetchingPage, FetchingPage
\* -> Failed on an error, FetchingPage -> Accumulating on success,
\* Accumulating -> FetchingPage iff has_next_page() and Accumulating -> Done
\* otherwise; Done and Failed are never left, and Done holds the whole
\* accumulated sequence, returned once.
C5_StateMachine ==
    /\ [][Transition]_vars
    /\ [](pc = "Done" => yields = 1 /\ result = Some(Ok(items)))
    /\ [](pc # "Done" => yields = 0)

C5_Witness ==
    /\ pc = "Done"
    /\ yields = 1
    /\ Len(fetched) = 3

----------------------------------------------------------------------------
(* Properties of Pagination. *)

TokenPresentAndNonEmpty(t) == t # None /\ unwrap(t) # ""

\* C6: in every state of a Pagination, has_next_page() equals is_start OR
\* (page_token is present AND page_token is not the empty string).
C6_HasNextPage ==
    pc = "Cursor" =>
        (has_next_page(pagination) <=>
            (pagination.is_start = TRUE
                \/ TokenPresentAndNonEmpty(pagination.page_token)))

C6_Witness ==
    /\ pc = "Cursor"
    /\ nsets = 2
    /\ ~pagination.is_start
    /\ pagination.page_token = Some("")
    /\ ~has_next_page(pagination)

\* C7 as claimed: for a Pagination from any public constructor,
\* has_next_page() is true as long as set_page_token has not been called, and
\* after the most recent set_page_token(t) it is true iff t is present and
\* non-empty.
C7_TrueBeforeFirstSet ==
    pc = "Cursor" =>
        IF nsets = 0 THEN has_next_page(pagination)
        ELSE has_next_page(pagination) <=> TokenPresentAndNonEmpty(unwrap(lastSet))

\* C7 amended: before any set_page_token, has_next_page() is true for default
\* and from_start, and for from_token(max, token) it is true iff token is not
\* the empty string; after the most recent set_page_token(t) it is true iff t
\* is present and non-empty.
C7_BeforeAndAfterSet ==
    pc = "Cursor" =>
        IF nsets = 0
        THEN has_next_page(pagination) <=>
                (ctor.name \in {"default", "from_start"} \/ ctor.token # Some(""))
        ELSE has_next_page(pagination) <=> TokenPresentAndNonEmpty(unwrap(lastSet))

C7_Witness ==
    /\ pc = "Cursor"
    /\ ctor.name = "from_token"
    /\ ctor.token = Some("")
    /\ nsets = 0
    /\ ~has_next_page(pagination)

----------------------------------------------------------------------------
(* Properties of handle_response. *)

Classified(status) == pc = "Classified" /\ unwrap(response).status = status
Body == unwrap(response).body
Outcome == unwrap(classified)

\* the kinds of the values an array body lists
Kinds(b) ==
    IF b.elements = None THEN None
    ELSE Some([i \in 1..Len(unwrap(b.elements)) |-> unwrap(b.elements)[i].type])

\* the body holds the keys the payload type requires, or lists its fields
Decodes(T, b) ==
    IF T = "GetShareResponse"
    THEN (b.json /\ b.share # None) \/ Kinds(b) = Some(<<"share">>)
    ELSE (b.json /\ b.items # None)
            \/ Kinds(b) \in {Some(<<"items", "string">>), Some(<<"items", "null">>)}

\* the body is an error envelope {errorCode, message}, or lists its fields
IsEnvelope(b) ==
    (b.json /\ b.errorCode # None /\ b.message # None)
        \/ Kinds(b) = Some(<<"string", "string">>)

\* what a body that decodes carries, under its key or at its place
ItemsOf(b) == IF b.json THEN unwrap(b.items) ELSE unwrap(b.elements)[1].val
TokenOf(b) == IF b.json THEN b.next_page_token ELSE unwrap(b.elements)[2].val
ShareOf(b) == IF b.json THEN unwrap(b.share) ELSE unwrap(b.elements)[1].val[1]
CodeOf(b) == IF b.json THEN unwrap(b.errorCode) ELSE unwrap(b.elements)[1].val[1]
MessageOf(b) == IF b.json THEN unwrap(b.message) ELSE unwrap(b.elements)[2].val[1]

\* C8: for every payload type, a 200 response whose body deserializes as the
\* payload yields Ok(payload), and one whose body does not yields an error of
\* kind ParseResponse.
C8_Status200 ==
    Classified(OK) =>
        IF Decodes(payload, Body)
        THEN /\ Outcome.ok
             /\ Outcome.val =
                   IF payload = "GetShareResponse"
                   THEN [share |-> ShareOf(Body)]
                   ELSE [items |-> ItemsOf(Body), next_page_token |-> TokenOf(Body)]
        ELSE ~Outcome.ok /\ Outcome.err.kind = "ParseResponse"

C8_Witness ==
    /\ Classified(OK)
    /\ payload = "ListTablesResponse"
    /\ Body.items = Some(<<"A", "B">>)
    /\ Body.next_page_token = Some("t1")
    /\ classified = Some(Ok([items |-> <<"A", "B">>, next_page_token |-> Some("t1")]))

\* C9: for each status s in {400, 401, 403, 404}, a body that deserializes as
\* {errorCode, message} yields a ClientError carrying s, the errorCode and the
\* message; any other body yields an error of kind ParseResponse.
C9_ClientErrors ==
    \A s \in {400, 401, 403, 404} :
        Classified(s) =>
            /\ ~Outcome.ok
            /\ IF IsEnvelope(Body)
               THEN /\ Outcome.err.kind = "ClientError"
                    /\ Outcome.err.status = s
                    /\ Outcome.err.code = CodeOf(Body)
                    /\ Outcome.err.message = MessageOf(Body)
               ELSE Outcome.err.kind = "ParseResponse"

C9_Witness ==
    /\ Classified(404)
    /\ Body.errorCode = Some("SHARE_NOT_FOUND")
    /\ Body.message = Some("m")
    /\ classified = Some(Err(client(404, "SHARE_NOT_FOUND", "m")))

\* C10: a 500 response whose body deserializes as {errorCode, message} yields
\* a ServerError carrying status 500 and the errorCode; any other body yields
\* an error of kind ParseResponse.
C10_Status500 ==
    Classified(500) =>
        /\ ~Outcome.ok
        /\ IF IsEnvelope(Body)
           THEN /\ Outcome.err.kind = "ServerError"
                /\ Outcome.err.status = 500
                /\ Outcome.err.code = CodeOf(Body)
           ELSE Outcome.err.kind = "ParseResponse"

C10_Witness ==
    /\ Classified(500)
    /\ IsEnvelope(Body)
    /\ Outcome.err.kind = "ServerError"
    /\ Outcome.err.code = "SHARE_NOT_FOUND"

\* C11: for every status outside {200, 400, 401, 403, 404, 500} and every
\* body, the result is the error of kind Internal with the message "unknown
\* server response"; the body has no part in it, so a malformed body never
\* gives ParseResponse.
C11_OtherStatus ==
    \A s \in Statuses \ {200, 400, 401, 403, 404, 500} :
        Classified(s) =>
            /\ classified = Some(Err(internal("unknown server response")))
            /\ \A b \in Bodies :
                  handle_response(payload, [status |-> s, body |-> b]) = Outcome

C11_Witness ==
    /\ Classified(418)
    /\ Body = NotJson
    /\ ~Outcome.ok
    /\ Outcome.err.kind = "Internal"
    /\ Outcome.err.message = "unknown server response"

\* C13: for every error value, is_not_found() is true iff the kind is
\* ClientError and the status is 404; it is false for ServerError, Internal,
\* Profile, Request, ParseResponse and for ClientError with another status.
C13_IsNotFound ==
    pc = "Asked" =>
        /\ unwrap(notFound) <=>
              (unwrap(error).kind = "ClientError" /\ unwrap(error).status = 404)
        /\ unwrap(error).kind
                \in {"ServerError", "Internal", "Profile", "Request", "ParseResponse"}
              => notFound = Some(FALSE)

C13_Witness ==
    /\ pc = "Asked"
    /\ error = Some(server(404, "SHARE_NOT_FOUND", "m"))
    /\ notFound = Some(FALSE)

\* C25: a 200 list body {"items": [...], "nextPageToken": t} decodes to a
\* ListResponse with the body's items in order and next_page_token = t, and
\* next_page_token is absent exactly when the body has no nextPageToken.
C25_NextPageTokenKey ==
    (Classified(OK) /\ payload \in ListPayloads /\ Body.json /\ is_some(Body.items)) =>
        /\ Outcome.ok
        /\ Outcome.val.items = unwrap(Body.items)
        /\ Outcome.val.next_page_token = Body.nextPageToken

----------------------------------------------------------------------------
(* Properties of the facade operations. *)

\* the call is over: it returned Ok, returned Err, or unwound
Ended == pc \in {"Done", "Failed", "Panicked"}

\* the response that came back for the request the call sent
Answered == is_some(wire) /\ ~unwrap(wire).failed
Answer == unwrap(wire).response

\* C12: get_share returns Ok(Some(share)) when the fetch succeeds, Ok(None)
\* when it ends in a ClientError with status 404, and hands back every other
\* error unchanged; no other operation turns an error into a success value.
C12_GetShareRecovery ==
    /\ (op = "get_share" /\ pc \in {"Done", "Failed"}) =>
          /\ is_some(lastOutcome) /\ is_some(result)
          /\ unwrap(lastOutcome).ok =>
                result = Some(Ok(Some(unwrap(lastOutcome).val.share)))
          /\ ~unwrap(lastOutcome).ok =>
                IF unwrap(lastOutcome).err.kind = "ClientError"
                      /\ unwrap(lastOutcome).err.status = 404
                THEN result = Some(Ok(None))
                ELSE result = Some(Err(unwrap(lastOutcome).err))
          /\ (Answered /\ Answer.status = 404 /\ IsEnvelope(Answer.body)) =>
                result = Some(Ok(None))
    /\ (op # "get_share" /\ is_some(lastOutcome) /\ ~unwrap(lastOutcome).ok) =>
          result = Some(Err(unwrap(lastOutcome).err))

C12_Witness ==
    /\ op = "get_share"
    /\ pc = "Done"
    /\ Answered
    /\ Answer.status = 404
    /\ lastOutcome = Some(Err(client(404, "SHARE_NOT_FOUND", "m")))
    /\ result = Some(Ok(None))

\* C14: get_table_version on a 200 response returns the unsigned integer of
\* the Delta-Table-Version header, and an error of kind ParseResponse when the
\* header is missing or not a number.
C14_VersionFromHeader ==
    (op = "get_table_version" /\ Ended /\ Answered /\ Answer.status = 200) =>
        /\ is_some(result)
        /\ IF is_some(Answer.version) /\ is_some(parse_u64(unwrap(Answer.version)))
           THEN result = Some(Ok(unwrap(parse_u64(unwrap(Answer.version)))))
           ELSE ~unwrap(result).ok /\ unwrap(result).err.kind = "ParseResponse"

\* C15: for every status other than 200 and every body, get_table_version
\* returns the error handle_response returns for that status and body.
C15_UnifiedClassification ==
    (op = "get_table_version" /\ Ended /\ Answered /\ Answer.status # 200) =>
        result = Some(handle_response("GetShareResponse",
                                      [status |-> Answer.status, body |-> Answer.body]))

\* the Authorization header for each token a profile of the model can hold
BearerHeader(token) == IF token = "tokA" THEN "Bearer tokA" ELSE "Bearer tokB"

\* C18: every network request a facade operation sends, each page request of
\* an aggregating call included, carries the Authorization header "Bearer "
\* followed by the token of the profile.
C18_BearerHeader ==
    /\ \A i \in 1..Len(sent) :
          sent[i].authorization = Some(BearerHeader(provide_token(bearer).val))
    /\ ~join_fails(endpoint) => Len(sent) = requests

C18_Witness ==
    /\ op = "list_schemas"
    /\ bearer.token = "tokB"
    /\ Len(sent) = 3
    /\ sent[3].authorization = Some("Bearer tokB")

\* C19: a failure of the transport in the send step is returned as an error
\* of kind Request.
C19_TransportIsRequest ==
    (Ended /\ is_some(wire) /\ unwrap(wire).failed) =>
        /\ is_some(result)
        /\ ~unwrap(result).ok
        /\ unwrap(result).err.kind = "Request"

ErrorKinds ==
    {"Internal", "Request", "Profile", "ParseResponse", "ClientError", "ServerError"}

\* C20: every facade operation that ends has returned a success value or an
\* error of one of the six kinds; none ends without returning a result.
C20_AlwaysReturns ==
    (Ended /\ op \in ListOps \cup RoundTripOps \cup TodoOps) =>
        /\ is_some(result)
        /\ unwrap(result).ok \/ unwrap(result).err.kind \in ErrorKinds

----------------------------------------------------------------------------
(* Properties of the token provider. *)

\* C17: provide_token fails with an error of kind Profile when the token has
\* expired at the time of the call, and returns the token string otherwise.
C17_ExpiredTokenRefused ==
    pc = "Provided" =>
        IF has_expired(bearer, now)
        THEN ~unwrap(provided).ok /\ unwrap(provided).err.kind = "Profile"
        ELSE provided = Some(Ok(bearer.token))

----------------------------------------------------------------------------
(* Properties of the request URLs. *)

BuiltUrl == unwrap(built).val
Pairs(url) == IF url.query = None THEN <<>> ELSE unwrap(url.query)

\* the decimal text of the max_results values of the model
Decimal(m) == CASE m = 1 -> "1" [] m = 100 -> "100"

\* the parameters a Pagination stands for, in the order of the wire format
PaginationPairs(p) ==
    (IF p.max_results = None THEN <<>>
     ELSE << [key |-> "maxResults", value |-> Decimal(unwrap(p.max_results))] >>)
    \o (IF p.page_token = None THEN <<>>
        ELSE << [key |-> "pageToken", value |-> unwrap(p.page_token)] >>)

\* C21: with_pagination appends maxResults iff max_results is set and
\* pageToken iff page_token is set, once each, maxResults first, with the
\* values of the Pagination; with both unset the URL is returned as it was,
\* and scheme, host, path, fragment and the earlier query pairs never change.
C21_WithPagination ==
    pc = "Paginated" =>
        /\ BuiltUrl.scheme = endpoint.scheme
        /\ BuiltUrl.host = endpoint.host
        /\ BuiltUrl.path = endpoint.path
        /\ BuiltUrl.fragment = endpoint.fragment
        /\ Pairs(BuiltUrl) = Pairs(endpoint) \o PaginationPairs(pagination)
        /\ (pagination.max_results = None /\ pagination.page_token = None)
              => BuiltUrl = endpoint

C21_Witness ==
    /\ pc = "Paginated"
    /\ endpoint = WithQuery
    /\ pagination = from_token(Some(100), "t1")
    /\ BuiltUrl.query = Some(<< [key |-> "region", value |-> "eu"],
                                [key |-> "maxResults", value |-> "100"],
                                [key |-> "pageToken", value |-> "t1"] >>)
    /\ BuiltUrl.fragment = Some("top")

\* the RFC3339 texts of the instants of the model
Rfc3339(ts) ==
    IF ts.year = 2021
    THEN {"2021-08-01T00:00:00Z", "2021-08-01T00:00:00+00:00"}
    ELSE {"1999-12-31T23:59:59.500Z", "1999-12-31T23:59:59.500+00:00"}

StartingTimestamps(url) ==
    SelectSeq(Pairs(url), LAMBDA pair : pair.key = "startingTimestamp")

\* C22: the request URL of get_table_version has no startingTimestamp
\* parameter when the version query is Latest, and exactly one, whose value
\* is the RFC3339 text of ts, when it is Timestamp(ts).
C22_StartingTimestamp ==
    (pc = "Built" /\ op = "get_table_version" /\ unwrap(built).ok) =>
        IF args.version = Latest
        THEN StartingTimestamps(BuiltUrl) = <<>>
        ELSE /\ Len(StartingTimestamps(BuiltUrl)) = 1
             /\ StartingTimestamps(BuiltUrl)[1].value \in Rfc3339(args.version.ts)

\* the path of an endpoint without its empty last segment
PathPrefix(e) == SubSeq(e.path, 1, Len(e.path) - 1)

\* C23: every request URL has the scheme, the host and the whole path prefix
\* of the endpoint, followed by the path segments of the resource.
C23_EndpointPrefixKept ==
    (pc = "Built" /\ unwrap(built).ok) =>
        /\ BuiltUrl.scheme = endpoint.scheme
        /\ BuiltUrl.host = endpoint.host
        /\ Len(BuiltUrl.path) > Len(PathPrefix(endpoint))
        /\ SubSeq(BuiltUrl.path, 1, Len(PathPrefix(endpoint))) = PathPrefix(endpoint)
        /\ BuiltUrl.path[Len(PathPrefix(endpoint)) + 1] = "shares"

\* percent-encoding of a name for one path segment
EncodeToken(t) ==
    CASE t = "/" -> "%2F" [] t = "?" -> "%3F" [] t = "#" -> "%23" [] t = "%" -> "%25"
      [] OTHER -> t

RECURSIVE Encoded(_)
Encoded(name) ==
    IF name = <<>> THEN "" ELSE EncodeToken(Head(name)) \o Encoded(Tail(name))

\* the path segments of the resource of an operation, one for each name
ResourceSegments(o, ar) ==
    CASE o = "list_shares" -> <<"shares">>
      [] o = "get_share" -> <<"shares", Encoded(ar.share)>>
      [] o = "list_schemas" -> <<"shares", Encoded(ar.share), "schemas">>
      [] o = "list_tables_in_share" ->
            <<"shares", Encoded(ar.share), "schemas", "all-tables">>
      [] o = "list_tables_in_schema" ->
            <<"shares", Encoded(ar.share), "schemas", Encoded(ar.schema), "tables">>
      [] o = "get_table_version" ->
            <<"shares", Encoded(ar.share), "schemas", Encoded(ar.schema), "tables",
              Encoded(ar.table), "version">>

EndsWith(path, tail) ==
    /\ Len(path) >= Len(tail)
    /\ SubSeq(path, Len(path) - Len(tail) + 1, Len(path)) = tail

\* C24: every name, percent-encoded, is exactly one path segment of the
\* request URL and adds no path segment, query parameter or fragment, so
\* different names never give the same request URL.
C24_NamesEncoded ==
    (pc = "Built" /\ unwrap(built).ok) =>
        /\ EndsWith(BuiltUrl.path, ResourceSegments(op, args))
        /\ BuiltUrl.fragment = None
        /\ \A i \in 1..Len(Pairs(BuiltUrl)) :
              Pairs(BuiltUrl)[i].key \in {"maxResults", "pageToken", "startingTimestamp"}
        /\ \A other \in ArgsOf(op) :
              request_url(endpoint, op, other, pagination) = unwrap(built) =>
                  /\ other.share = args.share
                  /\ other.schema = args.schema
                  /\ other.table = args.table

----------------------------------------------------------------------------
(* Properties of a raw single-page list call. *)

\* what a raw call has to return for what came back to it
RawExpected ==
    IF sent = <<>> THEN Err(internal("failed to construct URL"))
    ELSE IF unwrap(wire).failed THEN Err(from_reqwest_error(unwrap(wire).text))
    ELSE handle_response(PayloadOf(op), unwrap(wire).response)

\* C26: a raw list call sends at most one request, whose URL carries the
\* parameters of the Pagination it was given, never changes that
\* Pagination, and returns the decoded page of the one response or the
\* classified error; it sends nothing more after a failure.
C26_RawSinglePage ==
    /\ [](/\ Len(sent) <= 1
          /\ requests <= 1
          /\ sent # <<>> => /\ sent[1].op = op
                            /\ Pairs(sent[1].url) = PaginationPairs(pagination)
          /\ pc \in {"Done", "Failed"} =>
                /\ result = Some(RawExpected)
                /\ pc = "Done" <=> RawExpected.ok
                /\ fetched = <<>> /\ items = <<>>)
    /\ [][pagination' = pagination]_vars

C26_Witness ==
    /\ pc = "Done"
    /\ op = "list_schemas"
    /\ pagination = from_token(Some(100), "t1")
    /\ Pairs(sent[1].url) = << [key |-> "maxResults", value |-> "100"],
                               [key |-> "pageToken", value |-> "t1"] >>
    /\ unwrap(result).val = [items |-> <<"A", "B">>, next_page_token |-> Some("t2")]

----------------------------------------------------------------------------
(* Properties of cancellation. *)

\* C27: once an aggregating call is cancelled, whether before its first
\* page request or while one is in flight after earlier pages, it sends no
\* further page request and delivers no result: what it had accumulated is
\* gone and never returned.
C27_CancelDiscards ==
    /\ [](pc = "Cancelled" => result = None /\ yields = 0 /\ items = <<>>)
    /\ [][pc = "Cancelled" =>
            /\ sent' = sent /\ requests' = requests
            /\ result' = result /\ yields' = yields /\ pc' = pc]_vars

C27_Witness ==
    /\ pc = "Cancelled"
    /\ Len(sent) = 2
    /\ Len(fetched) = 1
    /\ fetched[1].items = <<"A", "B">>
    /\ result = None

----------------------------------------------------------------------------
(* Properties of concurrent calls. *)

RECURSIVE alone(_, _, _, _)
\* the call of operation o run on its own from cursor p and vector v against
\* the arrivals in order: its result, if it has one yet, and the page tokens
\* it asks for
alone(o, p, v, arrivals) ==
    IF is_finished(p) THEN [result |-> Some(Ok(v)), asked |-> <<>>]
    ELSE IF ~prepare(endpoint, bearer, o, args, p).ok
         THEN [result |-> Some(Err(prepare(endpoint, bearer, o, args, p).err)),
               asked |-> <<p.page_token>>]
    ELSE IF arrivals = <<>> THEN [result |-> None, asked |-> <<p.page_token>>]
    ELSE LET res == raw_result(endpoint, bearer, o, args, p, Head(arrivals))
         IN  IF ~res.ok THEN [result |-> Some(Err(res.err)), asked |-> <<p.page_token>>]
             ELSE LET rest == alone(o, set_page_token(p, res.val.next_page_token),
                                    v \o res.val.items, Tail(arrivals))
                  IN  [result |-> rest.result, asked |-> <<p.page_token>> \o rest.asked]

\* C28: under any interleaving of two calls on one client, a step of one
\* call changes nothing of the other call and nothing of the profile, and
\* the page tokens a call asks for and the result it returns are those of
\* the same call run alone against the responses it received.
C28_CallsIndependent ==
    /\ [](\A c \in CallIds :
            calls[c].pc \in {"FetchingPage", "Done", "Failed"} =>
                /\ calls[c].asked = alone(calls[c].op, default, <<>>, calls[c].got).asked
                /\ calls[c].result = alone(calls[c].op, default, <<>>, calls[c].got).result)
    /\ [][/\ endpoint' = endpoint /\ bearer' = bearer
          /\ \E c \in CallIds : \A d \in CallIds \ {c} : calls'[d] = calls[d]]_vars

C28_Witness ==
    /\ calls["c1"].pc = "Done"
    /\ calls["c1"].asked = <<None, Some("t1")>>
    /\ unwrap(calls["c1"].result) = Ok(<<"A", "B">>)
    /\ calls["c2"].pc = "FetchingPage"
    /\ calls["c2"].asked = <<None, Some("t1"), Some("t1")>>
    /\ calls["c2"].items = <<"A", "A">>

----------------------------------------------------------------------------
(* Properties of the profile constructors. *)

Made == unwrap(made)
IsProfile(outcome) == returns(outcome) /\ outcome.ok
IsProfileError(outcome) == returns(outcome) /\ ~outcome.ok /\ outcome.err.kind = "Profile"

\* the version a constructor is asked for, None when the file has none
AskedVersion ==
    IF Given.ctor = "try_from_path" THEN Given.file.shareCredentialsVersion
    ELSE Some(Given.version)

\* C29: every Profile a public constructor hands out has version 1, and a
\* constructor asked for another version answers with a Profile error.
C29_VersionOne ==
    pc = "Loaded" =>
        /\ IsProfile(Made) => Made.val.share_credentials_version = 1
        /\ (is_some(AskedVersion) /\ unwrap(AskedVersion) # 1) => IsProfileError(Made)

\* the texts of the model that are a date and time with an offset, and the
\* instant each denotes
DateTimeTexts == {ExpirationText, RelaxedText, LongFractionText, WhiteSpaceText}
DenotedInstant(expiration_text) ==
    CASE expiration_text = ExpirationText -> DateTime(2021, 11, 14, 0, 12, 2, 0)
      [] expiration_text = RelaxedText -> DateTime(2021, 11, 13, 22, 12, 60, 0)
      [] expiration_text = LongFractionText -> DateTime(2021, 11, 14, 0, 12, 2, 123456789)
      [] expiration_text = WhiteSpaceText -> DateTime(2021, 11, 13, 22, 12, 2, 0)

\* a JSON object with the keys and value types of a profile file
ValidObject(file) ==
    /\ file.syntax = "Object"
    /\ is_some(file.shareCredentialsVersion) /\ unwrap(file.shareCredentialsVersion) >= 0
    /\ is_some(file.endpoint)
    /\ file.expirationTime = None \/ unwrap(file.expirationTime) \in DateTimeTexts

\* the texts of the model that are absolute URLs, and the URL each denotes
AbsoluteTexts ==
    { HttpsText, MailtoText, UpperCaseText, PortText, NoSlashesText, MailtoQueryText,
      DotSegmentsText, FileText, Ipv4Text }
Denoted(endpoint_text) ==
    CASE endpoint_text = HttpsText -> DeltaSharingIo
      [] endpoint_text = MailtoText -> Mailto
      [] endpoint_text = UpperCaseText ->
             Url("https", Some(Domain("sharing.delta.io")), <<"">>, None, None)
      [] endpoint_text = PortText ->
             [Url("https", Some(Domain("h")), <<"x">>, None, None) EXCEPT !.port = Some(8443)]
      [] endpoint_text = NoSlashesText -> Url("https", Some(Domain("foo")), <<"">>, None, None)
      [] endpoint_text = MailtoQueryText ->
             [Mailto EXCEPT !.query = Some(<< [key |-> "x", value |-> "1"] >>)]
      [] endpoint_text = DotSegmentsText ->
             Url("https", Some(Domain("h")), <<"b", "c">>, None, None)
      [] endpoint_text = FileText -> Url("file", None, <<"tmp", "x">>, None, None)
      [] endpoint_text = Ipv4Text -> Url("https", Some(Ipv4("127.0.0.1")), <<"">>, None, None)

----------------------------------------------------------------------------
(* Properties of has_expired. *)

\* C32: has_expired, evaluated while the clock reads now, returns false when
\* the token has no expiration time, false when now is before the expiration
\* instant or is that instant, and true when now is after it: it returns
\* true exactly when an expiration time is set and lies strictly in the past.
C32_HasExpired ==
    pc = "Checked" =>
        /\ expired \in {Some(TRUE), Some(FALSE)}
        /\ bearer.expiration_time = None => expired = Some(FALSE)
        /\ \A x \in Times :
              bearer.expiration_time = Some(x) =>
                  /\ now < x => expired = Some(FALSE)
                  /\ now > x => expired = Some(TRUE)
                  /\ now = x => expired = Some(FALSE)

\* has_expired has answered true, for a token whose expiration is in the past
C32_Witness ==
    /\ pc = "Checked"
    /\ is_some(bearer.expiration_time)
    /\ unwrap(bearer.expiration_time) < now
    /\ expired = Some(TRUE)

----------------------------------------------------------------------------
(* Properties of the Display rendering of errors. *)

\* C31: to_string() on an error returns a string, whichever of the six kinds
\* the error has, and for an error of kind Profile with message m that
\* string is "[PROFILE_ERROR] " followed by m.
C31_DisplayEveryKind ==
    pc = "Shown" =>
        /\ returns(unwrap(shown))
        /\ unwrap(error).kind = "Profile" =>
              unwrap(shown) = Ok("[PROFILE_ERROR] " \o unwrap(error).message)

----------------------------------------------------------------------------
(* Properties of the Debug renderings and of the events logged. *)

\* the profile p with the token t in place of its own
with_token(p, t) == [p EXCEPT !.profile_type.token = t]

\* the profile file with the token t in place of its own, if it has one
with_file_token(file, t) ==
    [file EXCEPT !.bearerToken = IF @ = None THEN None ELSE Some(t)]

\* C33: the token is in no Debug rendering and in no logged value: the
\* Debug rendering of BearerToken, ProfileType, Profile and
\* DeltaSharingClient, and the events logged while a profile file is loaded
\* (the file of a rejected version included), are the same for two inputs
\* that differ in the token value only.
C33_TokenNeverRendered ==
    /\ pc = "Debugged" =>
          \E v \in DebugValues :
              /\ shown = Some(Ok(debug(v, Made.val)))
              /\ \A t \in TokenValues : debug(v, with_token(Made.val, t)) = unwrap(shown).val
    /\ (pc \in {"Loaded", "Debugged"} /\ Given.ctor = "try_from_path") =>
          \A t \in TokenValues : trace(Given.path, with_file_token(Given.file, t)) = logged

----------------------------------------------------------------------------
(* Properties of parsing a TableVersionQuery. *)

\* seconds from 1970-01-01T00:00:00Z to the instant ts
epoch(ts) ==
    days_from_civil(ts.year, ts.month, ts.day) * 86400 + ts.hour * 3600 + ts.minute * 60
        + ts.second

\* seconds from 1970-01-01T00:00:00Z to the instant the stamp denotes: its
\* local time less its offset
Denoted_epoch(stamp) ==
    days_from_civil(stamp.date.year, stamp.date.month, stamp.date.day) * 86400
        + stamp.time.hour * 3600 + stamp.time.minute * 60 + stamp.time.second
        - stamp.zone.east * 60

\* C34: parsing a TableVersionQuery from "latest" yields Latest, from a
\* valid RFC3339 timestamp yields Timestamp(t) with t the instant the
\* timestamp denotes, and from any other string yields an error with the
\* message CannotParse; the default query is Latest.
C34_ParseTableVersionQuery ==
    /\ pc \in {"Parsed", "ClientParsed"} =>
          /\ unwrap(str) = LatestText => parsed = Some(Ok(Latest))
          /\ \A stamp \in Stamps :
                unwrap(str) = TextOf(stamp) =>
                    /\ unwrap(parsed).ok
                    /\ unwrap(parsed).val.kind = "Timestamp"
                    /\ epoch(unwrap(parsed).val.ts) = Denoted_epoch(stamp)
                    /\ unwrap(parsed).val.ts.nanosecond = stamp.time.nanosecond
          /\ unwrap(str) \in OtherStrings =>
                /\ ~unwrap(parsed).ok
                /\ unwrap(parsed).err.message = CannotParse
    /\ pc = "Defaulted" => parsed = Some(Ok(Latest))

----------------------------------------------------------------------------
(* Properties of the statuses errors carry. *)

\* the error of an outcome, if the outcome is an error
ErrorOf(outcome) ==
    IF is_some(outcome) /\ returns(unwrap(outcome)) /\ ~unwrap(outcome).ok
    THEN {unwrap(outcome).err} ELSE {}

\* the errors the call has produced so far: the error of the latest raw
\* call and the error the call returned
Produced == ErrorOf(lastOutcome) \cup ErrorOf(result)

\* C35: every error of kind ClientError an operation produces carries a
\* status from 400 to 499 and every error of kind ServerError a status from
\* 500 to 599, whether it comes from the classification of a response or
\* from a failure of the transport.
C35_StatusMatchesKind ==
    \A e \in Produced :
        /\ e.kind = "ClientError" => e.status \in 400..499
        /\ e.kind = "ServerError" => e.status \in 500..599

----------------------------------------------------------------------------
(* Properties of set_page_token. *)

\* the cursor p after set_page_token(t), as the claim describes it
AfterSet(p, t) == [max_results |-> p.max_results, page_token |-> t, is_start |-> FALSE]

\* a step that fetches a page successfully
FetchesPage == Len(fetched') = Len(fetched) + 1

\* a step in which the fetch of a page ends in an error
FetchFails == Fetching(pc) /\ lastOutcome' # lastOutcome /\ ~unwrap(lastOutcome').ok

\* C36: set_page_token(t) sets is_start to false and page_token to t and
\* leaves max_results as it is; an aggregating call invokes it once for
\* every page it fetches successfully, with the token of that page, and the
\* cursor is not touched by a failed fetch or by any other step of the call;
\* once is_start is false no step sets it to true again.
C36_SetPageToken ==
    /\ [][nsets' = nsets + 1 => pagination' = AfterSet(pagination, unwrap(lastSet'))]_vars
    /\ [][FetchesPage =>
            pagination' = AfterSet(pagination, fetched'[Len(fetched')].next_page_token)]_vars
    /\ [][(pc \in {"Start", "FetchingPage", "ReadingBody", "Accumulating"} /\ ~FetchesPage) =>
            pagination' = pagination]_vars
    /\ [][FetchFails => (pagination' = pagination /\ pc' = "Failed")]_vars
    /\ [][~pagination.is_start => ~pagination'.is_start]_vars

\* an aggregating call has fetched two pages and its cursor holds the token
\* of the second
C36_Witness ==
    /\ pc = "Accumulating"
    /\ Len(fetched) = 2
    /\ Len(sent) = 2
    /\ is_some(fetched[2].next_page_token)
    /\ pagination = AfterSet(default, fetched[2].next_page_token)

----------------------------------------------------------------------------
(* Properties of the page requests of an aggregating call. *)

PageTokens(url) == SelectSeq(Pairs(url), LAMBDA pair : pair.key = "pageToken")
MaxResults(url) == SelectSeq(Pairs(url), LAMBDA pair : pair.key = "maxResults")

\* C37: the first page request of an aggregating call carries no pageToken
\* parameter; the request for page k+1 carries one, whose value is the
\* next_page_token page k came with; every page request of the call has the
\* resource path and the maxResults parameter of the first.
C37_TokenThreading ==
    \A k \in 1..Len(sent) :
        /\ k = 1 => PageTokens(sent[k].url) = <<>>
        /\ (k > 1 /\ k - 1 <= Len(fetched)) =>
              /\ Len(PageTokens(sent[k].url)) = 1
              /\ PageTokens(sent[k].url)[1].value = unwrap(fetched[k - 1].next_page_token)
        /\ sent[k].url.path = sent[1].url.path
        /\ MaxResults(sent[k].url) = MaxResults(sent[1].url)
====
